---- MODULE Spec2Model ----
(***************************************************************************)
(* Model of ts-pgconnector (lib/index.js): the Connector's Registry of     *)
(* database pools and repository mappings, and the operations that fill    *)
(* and read it.                                                            *)
(*                                                                         *)
(* JavaScript values are tagged records: the field t is the value's kind.  *)
(* A pool handle is the ordinal of the `new Pool(dbConf)` call that made   *)
(* it, so two handles are the identical object iff the numbers are equal.  *)
(***************************************************************************)
EXTENDS Naturals, Sequences, FiniteSets, TLC

VARIABLES
    databases,      \* this.databases    : Map key -> {name, pool}
    repositories,   \* this.repositories : Map key -> {name, pool, databaseName}
    pools,          \* every `new this._pg.Pool(dbConf)` so far: handle p was made for
                    \* the entry pools[p].key with the config pools[p].conf
    listeners,      \* this._emitter: the number of listeners of each event
    loads,          \* load() calls whose configurator.load has not called back yet
    conns,          \* connect() calls whose pool.connect has not called back yet
    lastFill,       \* the most recent _fill(conf): its conf and what it returned
    result,         \* the most recent step: the call or callback and how it ended
    emitted,        \* the events this._emitter emitted during the most recent step
    call,           \* the most recent step: the method or callback invoked, the
                    \* arguments it was invoked with, and what its environment did
    effects,        \* the most recent step: what it did, in the order it did it
                    \* ("fill", an event emitted, "callback", "resolve", "reject")
    shared,         \* the module's `shared`: the value of Connector.shared
    peer            \* another Connector of the process: its databases and
                    \* repositories and the pools opened for it

vars == <<databases, repositories, pools, listeners, loads, conns,
          lastFill, result, emitted, call, effects, shared, peer>>

----------------------------------------------------------------------------
(* Bounds of the model *)

\* `new Pool` calls in one behaviour
MaxPools == 2
\* load() and connect() calls in flight at once, where calls are made one
\* after the other's completion
MaxPending == 1
\* load() and connect() calls in flight at once, where calls overlap
MaxInFlight == 2
\* listeners registered with on() in one behaviour
MaxListeners == 1

----------------------------------------------------------------------------
(* JavaScript values *)

Undefined == [t |-> "undefined"]
Null == [t |-> "null"]
Str(s) == [t |-> "string", s |-> s]
Num == [t |-> "number"]
\* an array, and the empty one
ArrOf(items) == [t |-> "array", items |-> items]
Arr == ArrOf(<<>>)
DateV == [t |-> "date"]
Fn == [t |-> "function"]
\* a function told from other functions by its name
FnNamed(name) == [t |-> "function", name |-> name]
\* a function that throws when connect's callback path calls it
FnThrowing(name) == [t |-> "function", name |-> name, throws |-> TRUE]
\* calling the value throws
Throws(fn) == fn.t = "function" /\ "throws" \in DOMAIN fn
\* an object literal: its own enumerable properties in insertion order
Obj(entries) == [t |-> "object", entries |-> entries]

\* Object.keys(obj)
Keys(obj) == [i \in 1..Len(obj.entries) |-> obj.entries[i].key]

\* obj[key]
Get(obj, key) ==
    IF \E i \in 1..Len(obj.entries) : obj.entries[i].key = key
    THEN LET i == CHOOSE j \in 1..Len(obj.entries) : obj.entries[j].key = key
         IN  obj.entries[i].value
    ELSE Undefined

\* typeof value
typeof(v) ==
    IF v.t \in {"null", "object", "array", "date", "error"} THEN "object" ELSE v.t

\* elv(value): neither undefined nor null
elv(v) == v.t \notin {"undefined", "null"}

isPojo(obj) == typeof(obj) = "object" /\ obj.t # "array" /\ obj.t # "date"

isNonEmptyString(value) == typeof(value) = "string" /\ value.s # ""

----------------------------------------------------------------------------
(* Errors *)

msg == [
    argCallback     |-> "Argument \"callback\" must be a function",
    argEventNameStr |-> "Argument \"eventName\" must be a non-empty string",
    argUnknownEventName |-> "Argument \"eventName\" references an unknown event: ",
    argListenerFn   |-> "Argument \"listener\" must be a function",
    argProvidersArray |-> "Argument \"providers\" must be an array",
    argProvidersLen |-> "Argument \"providers\" cannot be empty",
    argRepoStr      |-> "Argument \"repository\" must be a non-empty string",
    dbConfHostStr   |-> "Databases require a \"host\" key that is a non-empty string",
    dbConfPojo      |-> "Loaded configuration \"databases\" sub keys must be POJOs",
    databasesPojo   |-> "Loaded configuration's \"databases\" key must be a POJO",
    noDatabases     |-> "Loaded configuration does not contain any \"databases\"",
    reposPojo       |-> "Loaded configuration's \"repositories\" key must be a POJO",
    repoConfMapping |-> "Configured repository is mapped to missing database name",
    repoConfStr     |-> "Loaded configuration \"repositories\" must non-empty strings",
    sharedInvalid   |-> "Shared must be set to null or an instance of Connector"
  ]

\* msg.<name>: undefined for a name the table does not have
Msg(name) == IF name \in DOMAIN msg THEN Str(msg[name]) ELSE Undefined

\* The auxiliary data of an error: the conf object itself, a {key, value}
\* object, a bare key, or nothing.
DataConf == [shape |-> "conf"]
DataKeyValue(key, value) == [shape |-> "keyvalue", key |-> key, value |-> value]
DataKey(key) == [shape |-> "key", key |-> key]
DataNone == [shape |-> "none"]

ConfigurationError(message, data) ==
    [t |-> "error", type |-> "ConfigurationError",
     message |-> IF elv(message) THEN message.s ELSE "Invalid configuration",
     data |-> data]

MissingRepositoryError(repository) ==
    [t |-> "error", type |-> "MissingRepositoryError",
     message |-> "No repository found with the name ",
     data |-> DataKey(repository)]

TypeError(message) ==
    [t |-> "error", type |-> "TypeError", message |-> message.s, data |-> DataNone]

----------------------------------------------------------------------------
(* Validation helpers *)

validateDatabaseConf(key, dbConf) ==
    IF ~elv(dbConf) \/ ~isPojo(dbConf)
    THEN ConfigurationError(Msg("dbConfPojo"), DataKeyValue(key, dbConf))
    ELSE IF ~isNonEmptyString(Get(dbConf, "host"))
    THEN ConfigurationError(Msg("dbConfHostStr"), DataKeyValue(key, dbConf))
    ELSE Null

validateConf(conf) ==
    IF ~elv(Get(conf, "databases"))
    THEN ConfigurationError(Msg("noDatabases"), DataConf)
    ELSE IF ~isPojo(Get(conf, "databases"))
    THEN ConfigurationError(Msg("databasesPojo"), DataConf)
    ELSE IF ~elv(Get(conf, "repositories"))
    THEN ConfigurationError(Msg("noRepositories"), DataConf)
    ELSE IF ~isPojo(Get(conf, "repositories"))
    THEN ConfigurationError(Msg("reposPojo"), DataConf)
    ELSE Null

----------------------------------------------------------------------------
(* The Registry of one Connector, as the private methods see it:           *)
(* self = [databases, repositories, pools].  Each method returns the       *)
(* Connector as it leaves it together with its return value.               *)

Self == [databases |-> databases, repositories |-> repositories, pools |-> pools]

RECURSIVE FillDatabasesLoop(_, _, _)
FillDatabasesLoop(self, dbs, i) ==
    IF i > Len(Keys(dbs))
    THEN [self |-> self, ret |-> Null]
    ELSE LET key == Keys(dbs)[i]
             dbConf == Get(dbs, key)
             databaseErr == validateDatabaseConf(key, dbConf)
         IN  IF elv(databaseErr)
             THEN [self |-> self, ret |-> databaseErr]
             ELSE LET pool == Len(self.pools) + 1
                      next == [self EXCEPT
                                 !.pools = Append(@, [key |-> key, conf |-> dbConf]),
                                 !.databases = (key :> [name |-> key, pool |-> pool]) @@ @]
                  IN  FillDatabasesLoop(next, dbs, i + 1)

\* Mutant: the map is started afresh for every snapshot.
FillDatabasesMap_StartsEmpty(self, dbs) ==
    IF Len(Keys(dbs)) = 0
    THEN [self |-> self, ret |-> ConfigurationError(Msg("noDatabases"), DataNone)]
    ELSE FillDatabasesLoop([self EXCEPT !.databases = << >>], dbs, 1)

\* Mutant: a key the Registry already tracks is skipped, not re-opened.
FillDatabasesMap_SkipTracked(self, dbs) ==
    IF Len(Keys(dbs)) = 0
    THEN [self |-> self, ret |-> ConfigurationError(Msg("noDatabases"), DataNone)]
    ELSE FillDatabasesLoop(
             self,
             Obj(SelectSeq(dbs.entries, LAMBDA e : e.key \notin DOMAIN self.databases)),
             1)

\* Mutant: every entry is validated before the first one is stored.
FillDatabasesMap_ValidateAllFirst(self, dbs) ==
    IF Len(Keys(dbs)) = 0
    THEN [self |-> self, ret |-> ConfigurationError(Msg("noDatabases"), DataNone)]
    ELSE IF elv(FillDatabasesLoop(self, dbs, 1).ret)
    THEN [self |-> self, ret |-> FillDatabasesLoop(self, dbs, 1).ret]
    ELSE FillDatabasesLoop(self, dbs, 1)

\* Mutant: the pool of the entry that fails validation has been opened.
FillDatabasesMap_OpensFailingEntry(self, dbs) ==
    IF Len(Keys(dbs)) = 0
    THEN [self |-> self, ret |-> ConfigurationError(Msg("noDatabases"), DataNone)]
    ELSE LET filled == FillDatabasesLoop(self, dbs, 1)
             key == Keys(dbs)[Len(filled.self.pools) - Len(self.pools) + 1]
         IN  IF elv(filled.ret)
             THEN [self |-> [filled.self EXCEPT
                               !.pools = Append(@, [key |-> key, conf |-> Get(dbs, key)])],
                   ret |-> filled.ret]
             ELSE filled

FillDatabasesMap(self, dbs) ==
    IF Len(Keys(dbs)) = 0
    THEN [self |-> self, ret |-> ConfigurationError(Msg("noDatabases"), DataNone)]
    ELSE FillDatabasesLoop(self, dbs, 1)

ValidateRepoConf(self, key, repoConf) ==
    IF ~isNonEmptyString(repoConf)
    THEN ConfigurationError(Msg("repoConfStr"), DataKey(key))
    ELSE IF repoConf.s \notin DOMAIN self.databases
    THEN ConfigurationError(Msg("repoConfMapping"), DataKeyValue(key, repoConf))
    ELSE Null

RECURSIVE FillReposLoop(_, _, _)
FillReposLoop(self, repos, i) ==
    IF i > Len(Keys(repos))
    THEN [self |-> self, ret |-> Null]
    ELSE LET key == Keys(repos)[i]
             repoConf == Get(repos, key)
             repoErr == ValidateRepoConf(self, key, repoConf)
         IN  IF elv(repoErr)
             THEN [self |-> self, ret |-> repoErr]
             ELSE LET next == [self EXCEPT
                                 !.repositories =
                                     (key :> [name |-> key,
                                              pool |-> self.databases[repoConf.s].pool,
                                              databaseName |-> repoConf.s]) @@ @]
                  IN  FillReposLoop(next, repos, i + 1)

\* Mutant: an empty `repositories` is accepted.
FillReposMap_NoEmptyCheck(self, repos) == FillReposLoop(self, repos, 1)

\* Mutant: a repository the Registry already has keeps its old entry.
FillReposMap_KeepExisting(self, repos) ==
    IF Len(Keys(repos)) = 0
    THEN [self |-> self, ret |-> ConfigurationError(Msg("noRepositories"), DataNone)]
    ELSE LET loop == FillReposLoop(self, repos, 1)
         IN  [self |-> [loop.self EXCEPT !.repositories = self.repositories @@ @],
              ret |-> loop.ret]

\* Mutant: the error of an entry stops the loop but is not returned.
FillReposMap_IgnoreEntryError(self, repos) ==
    IF Len(Keys(repos)) = 0
    THEN [self |-> self, ret |-> ConfigurationError(Msg("noRepositories"), DataNone)]
    ELSE [self |-> FillReposLoop(self, repos, 1).self, ret |-> Null]

FillReposMap(self, repos) ==
    IF Len(Keys(repos)) = 0
    THEN [self |-> self, ret |-> ConfigurationError(Msg("noRepositories"), DataNone)]
    ELSE FillReposLoop(self, repos, 1)

\* Mutant: the `repositories` key is looked at only after the entries of
\* `databases` have been validated and stored.
Fill_EntriesBeforeRepositoriesKey(self, conf) ==
    IF ~elv(Get(conf, "databases"))
    THEN [self |-> self, ret |-> ConfigurationError(Msg("noDatabases"), DataConf)]
    ELSE IF ~isPojo(Get(conf, "databases"))
    THEN [self |-> self, ret |-> ConfigurationError(Msg("databasesPojo"), DataConf)]
    ELSE LET databasesErr == FillDatabasesMap(self, Get(conf, "databases"))
         IN  IF elv(databasesErr.ret)
             THEN databasesErr
             ELSE IF elv(validateConf(conf))
             THEN [self |-> databasesErr.self, ret |-> validateConf(conf)]
             ELSE FillReposMap(databasesErr.self, Get(conf, "repositories"))

\* Mutant: a `databases` object is stored before validateConf is asked.
Fill_StoresDatabasesFirst(self, conf) ==
    IF Get(conf, "databases").t # "object" \/ Len(Keys(Get(conf, "databases"))) = 0
    THEN [self |-> self,
          ret |-> IF elv(validateConf(conf)) THEN validateConf(conf)
                  ELSE ConfigurationError(Msg("noDatabases"), DataNone)]
    ELSE LET databasesErr == FillDatabasesMap(self, Get(conf, "databases"))
         IN  IF elv(validateConf(conf))
             THEN [self |-> databasesErr.self, ret |-> validateConf(conf)]
             ELSE IF elv(databasesErr.ret)
             THEN databasesErr
             ELSE FillReposMap(databasesErr.self, Get(conf, "repositories"))

\* Mutant: what _fillReposMap returns is dropped.
Fill_DropReposErr(self, conf) ==
    LET validateErr == validateConf(conf)
    IN  IF elv(validateErr)
        THEN [self |-> self, ret |-> validateErr]
        ELSE LET databasesErr == FillDatabasesMap(self, Get(conf, "databases"))
             IN  IF elv(databasesErr.ret)
                 THEN databasesErr
                 ELSE [self |-> FillReposMap(databasesErr.self,
                                             Get(conf, "repositories")).self,
                       ret |-> Null]

Fill(self, conf) ==
    LET validateErr == validateConf(conf)
    IN  IF elv(validateErr)
        THEN [self |-> self, ret |-> validateErr]
        ELSE LET databasesErr == FillDatabasesMap(self, Get(conf, "databases"))
             IN  IF elv(databasesErr.ret)
                 THEN databasesErr
                 ELSE FillReposMap(databasesErr.self, Get(conf, "repositories"))

----------------------------------------------------------------------------
(* Kibbutz, as add() uses it: configurator.append(vals) merges the         *)
(* fragments into configurator.value, which starts as {}.  Objects merge   *)
(* key by key; a key keeps the position of its first appearance.  Which    *)
(* of two different values of one key survives is Kibbutz's policy; the    *)
(* fragments merged below never give one key two values.                   *)

HasKey(obj, key) == \E i \in 1..Len(obj.entries) : obj.entries[i].key = key

RECURSIVE Merge(_, _)
Merge(target, source) ==
    IF target.t = "object" /\ source.t = "object"
    THEN LET kept == [i \in 1..Len(target.entries) |->
                        LET e == target.entries[i]
                        IN  IF HasKey(source, e.key)
                            THEN [key |-> e.key, value |-> Merge(e.value, Get(source, e.key))]
                            ELSE e]
             added == SelectSeq(source.entries, LAMBDA e : ~HasKey(target, e.key))
         IN  Obj(kept \o added)
    ELSE source

RECURSIVE AppendFrom(_, _, _)
AppendFrom(value, vals, i) ==
    IF i > Len(vals) THEN value ELSE AppendFrom(Merge(value, vals[i]), vals, i + 1)

KibbutzAppend(vals) == AppendFrom(Obj(<<>>), vals, 1)

\* Mutant: an argument that is an array is skipped.
Flatten_DropArrays(args, i) == SelectSeq(args, LAMBDA a : a.t # "array")

\* add()'s loop over its arguments: arrays are flattened one level
RECURSIVE Flatten(_, _)
Flatten(args, i) ==
    IF i > Len(args) THEN <<>>
    ELSE (IF args[i].t = "array" THEN args[i].items ELSE <<args[i]>>) \o Flatten(args, i + 1)

----------------------------------------------------------------------------
(* Results of public calls *)

SelfV == [t |-> "connector"]
PoolV(p) == [t |-> "pool", id |-> p]
\* a promise as the caller receives it: pending, or already rejected
PromiseV(state, value) == [t |-> "promise", state |-> state, value |-> value]
\* an Error that is none of this module's: of a provider, a pool or a driver
ErrorV(message) == [t |-> "error", type |-> "Error", message |-> message, data |-> DataNone]

\* How a step ended, the value it ended with, and the argument lists of the
\* callback invocations it made.
Return(op, value) == [op |-> op, outcome |-> "return", value |-> value, cb |-> <<>>]
Throw(op, err) == [op |-> op, outcome |-> "throw", value |-> err, cb |-> <<>>]
Settle(op, outcome, value, cbfn, cbArgs) ==
    [op |-> op, outcome |-> outcome, value |-> value,
     cb |-> IF elv(cbfn) THEN <<[fn |-> cbfn, args |-> cbArgs]>> ELSE <<>>]

\* What `call` records: the method or callback, its arguments, and what the
\* library it calls into did ("" where there is no choice).
Call(op, args, env) == [op |-> op, args |-> args, env |-> env]

\* this._emitter.emit(name, arg)
Emit(name, arg) == [name |-> name, arg |-> arg, heard |-> listeners[name]]

\* What lastFill records of a _fill(conf) that returned ret: the pools that
\* existed before it, and whether the _fill before it had the same conf and
\* returned null.
FillRecord(conf, ret) ==
    [conf |-> conf, ret |-> ret, base |-> Len(pools),
     repeat |-> lastFill.conf = conf /\ lastFill.ret = Null]

EventNames == {"config", "done", "error"}

Init ==
    /\ databases = << >>
    /\ repositories = << >>
    /\ pools = << >>
    /\ listeners = [e \in EventNames |-> 0]
    /\ loads = << >>
    /\ conns = << >>
    /\ lastFill = [conf |-> Obj(<<>>), ret |-> Undefined, base |-> 0, repeat |-> FALSE]
    /\ result = Return("new", SelfV)
    /\ emitted = << >>
    /\ call = Call("new", << >>, "")
    /\ effects = << >>
    /\ shared = Null
    /\ peer = [databases |-> << >>, repositories |-> << >>, pools |-> << >>]

\* assertCallback(callback): the error it throws, or null
assertCallback(callback) ==
    IF elv(callback) /\ typeof(callback) # "function"
    THEN TypeError(Msg("argCallback"))
    ELSE Null

\* Mutant: a name that is not registered is reported as a bad argument.
AssertRepo_MissingAsTypeError(self, repository) ==
    IF ~isNonEmptyString(repository)
    THEN TypeError(Msg("argRepoStr"))
    ELSE IF repository.s \notin DOMAIN self.repositories
    THEN TypeError(Msg("argRepoStr"))
    ELSE Null

\* _assertRepo(repository): the error it throws, or null
AssertRepo(self, repository) ==
    IF ~isNonEmptyString(repository)
    THEN TypeError(Msg("argRepoStr"))
    ELSE IF repository.s \notin DOMAIN self.repositories
    THEN MissingRepositoryError(repository.s)
    ELSE Null

\* Mutant: add() returns what _fill returned.
AddOutcome_ReturnsError(fillErr) ==
    IF elv(fillErr) THEN Return("add", fillErr) ELSE Return("add", SelfV)

\* add(): what it does with the value _fill returned
AddOutcome(fillErr) ==
    IF elv(fillErr) THEN Throw("add", fillErr) ELSE Return("add", SelfV)

\* add(...args)
Add(args) ==
    /\ IF Len(args) = 0
       THEN /\ result' = Return("add", SelfV)
            /\ UNCHANGED <<databases, repositories, pools, lastFill>>
       ELSE LET vals == Flatten(args, 1)
                conf == KibbutzAppend(vals)
                fillErr == Fill(Self, conf)
            IN  /\ Len(fillErr.self.pools) <= MaxPools
                /\ databases' = fillErr.self.databases
                /\ repositories' = fillErr.self.repositories
                /\ pools' = fillErr.self.pools
                /\ lastFill' = FillRecord(conf, fillErr.ret)
                /\ result' = AddOutcome(fillErr.ret)
    /\ emitted' = << >>
    /\ call' = Call("add", args, "")
    /\ effects' = IF Len(args) = 0 THEN << >> ELSE <<"fill">>
    /\ shared' = shared /\ peer' = peer
    /\ UNCHANGED <<listeners, loads, conns>>

\* Mutant: the maps are the module's, one pair for every Connector.
PeerAdd_WritesEveryConnector(args) ==
    LET fillErr == Fill(peer, KibbutzAppend(Flatten(args, 1)))
    IN  /\ Len(args) > 0
        /\ Len(fillErr.self.pools) <= MaxPools
        /\ peer' = fillErr.self
        /\ databases' = fillErr.self.databases
        /\ repositories' = fillErr.self.repositories
        /\ result' = AddOutcome(fillErr.ret)
        /\ emitted' = << >>
        /\ call' = Call("peer.add", args, "")
        /\ effects' = <<"fill">>
        /\ UNCHANGED <<pools, listeners, loads, conns, lastFill, shared>>

\* add(...args) called on the other Connector: `this` is the peer
PeerAdd(args) ==
    LET fillErr == Fill(peer, KibbutzAppend(Flatten(args, 1)))
    IN  /\ Len(args) > 0
        /\ Len(fillErr.self.pools) <= MaxPools
        /\ peer' = fillErr.self
        /\ result' = AddOutcome(fillErr.ret)
        /\ emitted' = << >>
        /\ call' = Call("peer.add", args, "")
        /\ effects' = <<"fill">>
        /\ UNCHANGED <<databases, repositories, pools, listeners, loads, conns,
                       lastFill, shared>>

\* getPool(repository)
GetPool(repository) ==
    /\ result' =
         IF elv(AssertRepo(Self, repository))
         THEN Throw("getPool", AssertRepo(Self, repository))
         ELSE Return("getPool", PoolV(repositories[repository.s].pool))
    /\ emitted' = << >>
    /\ call' = Call("getPool", <<repository>>, "")
    /\ effects' = << >>
    /\ shared' = shared /\ peer' = peer
    /\ UNCHANGED <<databases, repositories, pools, listeners, loads, conns, lastFill>>

\* Mutant: a name that is none of the three events is accepted.
OnError_AnyName(eventName, listener) ==
    IF typeof(eventName) # "string" \/ eventName.s = ""
    THEN TypeError(Msg("argEventNameStr"))
    ELSE IF typeof(listener) # "function"
    THEN TypeError(Msg("argListenerFn"))
    ELSE Null

\* on(): the error its argument checks throw, or null
OnError(eventName, listener) ==
    IF typeof(eventName) # "string" \/ eventName.s = ""
    THEN TypeError(Msg("argEventNameStr"))
    ELSE IF typeof(listener) # "function"
    THEN TypeError(Msg("argListenerFn"))
    ELSE IF eventName.s \notin EventNames
    THEN ErrorV(msg.argUnknownEventName)
    ELSE Null

\* on(eventName, listener)
On(eventName, listener) ==
    LET err == OnError(eventName, listener)
        total == listeners["config"] + listeners["done"] + listeners["error"]
    IN  /\ ~elv(err) => total < MaxListeners
        /\ listeners' = IF elv(err) THEN listeners
                        ELSE [listeners EXCEPT ![eventName.s] = @ + 1]
        /\ result' = IF elv(err) THEN Throw("on", err) ELSE Return("on", SelfV)
        /\ emitted' = << >>
        /\ call' = Call("on", <<eventName, listener>>, "")
        /\ effects' = << >>
        /\ shared' = shared /\ peer' = peer
        /\ UNCHANGED <<databases, repositories, pools, loads, conns, lastFill>>

\* val instanceof Connector
instanceofConnector(val) == val.t = "connector"

\* Mutant: the setter stores whatever it is given.
SharedSetError_AcceptsAny(val) == Null

\* static set shared(val): the error it throws, or null
SharedSetError(val) ==
    IF instanceofConnector(val) \/ val = Null
    THEN Null
    ELSE TypeError(Msg("sharedInvalid"))

\* Connector.shared = val
SetShared(val) ==
    LET err == SharedSetError(val)
    IN  /\ shared' = IF elv(err) THEN shared ELSE val
        /\ result' = IF elv(err) THEN Throw("shared.set", err)
                      ELSE Return("shared.set", val)
        /\ emitted' = << >>
        /\ call' = Call("shared.set", <<val>>, "")
        /\ effects' = << >>
        /\ UNCHANGED <<databases, repositories, pools, listeners, loads, conns,
                       lastFill, peer>>

\* Connector.shared
GetShared ==
    /\ result' = Return("shared.get", shared)
    /\ emitted' = << >>
    /\ call' = Call("shared.get", << >>, "")
    /\ effects' = << >>
    /\ UNCHANGED <<databases, repositories, pools, listeners, loads, conns,
                   lastFill, shared, peer>>

\* The i-th element of a sequence removed
RemoveAt(seq, i) == [j \in 1..(Len(seq) - 1) |-> IF j < i THEN seq[j] ELSE seq[j + 1]]

\* connect(repository, callback), up to the return of the promise.  The
\* pool's connect() either keeps the callback for later or throws (driver).
Connect(repository, callback, driver) ==
    LET repoErr == AssertRepo(Self, repository)
        cbErr == assertCallback(callback)
    IN  /\ call' = Call("connect", <<repository, callback>>, driver)
        /\ shared' = shared /\ peer' = peer
        /\ IF elv(repoErr) \/ elv(cbErr)
           THEN /\ result' = Throw("connect", IF elv(repoErr) THEN repoErr ELSE cbErr)
                /\ emitted' = << >>
                /\ effects' = << >>
                /\ UNCHANGED <<databases, repositories, pools, listeners, loads, conns,
                               lastFill>>
           ELSE IF driver = "throws"
           THEN \* emit('error', e) itself throws e when nobody listens to 'error';
                \* an exception in the executor rejects the promise
                LET e == ErrorV("driver")
                IN  /\ emitted' = <<Emit("error", e)>>
                    /\ effects' = IF listeners["error"] = 0
                                  THEN <<"error", "reject">> ELSE <<"error">>
                    /\ result' = Return("connect",
                                        IF listeners["error"] = 0
                                        THEN PromiseV("rejected", e)
                                        ELSE PromiseV("pending", Undefined))
                    /\ UNCHANGED <<databases, repositories, pools, listeners, loads,
                                   conns, lastFill>>
           ELSE /\ Len(loads) + Len(conns) < MaxInFlight
                /\ conns' = Append(conns, [pool |-> repositories[repository.s].pool,
                                           cbfn |-> callback])
                /\ result' = Return("connect", PromiseV("pending", Undefined))
                /\ emitted' = << >>
                /\ effects' = << >>
                /\ UNCHANGED <<databases, repositories, pools, listeners, loads, lastFill>>

\* a client checked out of a pool, and the function that releases it
ClientV(pool) == [t |-> "client", pool |-> pool]
Release == FnNamed("release")

\* Mutant: on error the promise is rejected but the callback is forgotten.
PoolConnectCallback_NoCallbackOnError(cbfn, err, client, done) ==
    IF elv(err)
    THEN Settle("connect.callback", "reject", err, Undefined, <<err>>)
    ELSE Settle("connect.callback", "resolve", client, cbfn, <<Null, client, done>>)

\* Mutant: the promise resolves with what the callback gets, client and done.
PoolConnectCallback_ResolvesPair(cbfn, err, client, done) ==
    IF elv(err)
    THEN Settle("connect.callback", "reject", err, cbfn, <<err>>)
    ELSE Settle("connect.callback", "resolve", ArrOf(<<client, done>>), cbfn,
                <<Null, client, done>>)

\* The function connect() hands to pool.connect, called with (err) or with
\* (null, client, done): the callback invocation it makes and how it
\* settles the promise.
PoolConnectCallback(cbfn, err, client, done) ==
    IF Throws(cbfn)
    THEN \* cbfn(...) throws: the statement that settles the promise is not
         \* reached, and the exception goes to the pool that called back
         [op |-> "connect.callback", outcome |-> "throw", value |-> ErrorV("callback"),
          cb |-> <<[fn |-> cbfn,
                    args |-> IF elv(err) THEN <<err>> ELSE <<Null, client, done>>]>>]
    ELSE IF elv(err)
    THEN Settle("connect.callback", "reject", err, cbfn, <<err>>)
    ELSE Settle("connect.callback", "resolve", client, cbfn, <<Null, client, done>>)

\* Mutant: an error of one acquisition ends every connect in flight.
ConnectCallback_ErrorEndsAll(i, err) ==
    /\ i \in 1..Len(conns)
    /\ LET client == IF elv(err) THEN Undefined ELSE ClientV(conns[i].pool)
           done == IF elv(err) THEN Undefined ELSE Release
       IN  /\ result' = PoolConnectCallback(conns[i].cbfn, err, client, done)
           /\ call' = Call("connect.callback",
                           IF elv(err) THEN <<err>> ELSE <<err, client, done>>, "")
    /\ conns' = IF elv(err) THEN << >> ELSE RemoveAt(conns, i)
    /\ emitted' = << >>
    /\ effects' = (IF elv(conns[i].cbfn) THEN <<"callback">> ELSE << >>)
                  \o <<IF elv(err) THEN "reject" ELSE "resolve">>
    /\ shared' = shared /\ peer' = peer
    /\ UNCHANGED <<databases, repositories, pools, listeners, loads, lastFill>>

\* Mutant: after an error the acquisition is made again.
ConnectCallback_RetriesOnError(i, err) ==
    /\ i \in 1..Len(conns)
    /\ LET client == IF elv(err) THEN Undefined ELSE ClientV(conns[i].pool)
           done == IF elv(err) THEN Undefined ELSE Release
       IN  /\ result' = PoolConnectCallback(conns[i].cbfn, err, client, done)
           /\ call' = Call("connect.callback",
                           IF elv(err) THEN <<err>> ELSE <<err, client, done>>, "")
    /\ conns' = IF elv(err) THEN conns ELSE RemoveAt(conns, i)
    /\ emitted' = << >>
    /\ effects' = (IF elv(conns[i].cbfn) THEN <<"callback">> ELSE << >>)
                  \o <<IF elv(err) THEN "reject" ELSE "resolve">>
    /\ shared' = shared /\ peer' = peer
    /\ UNCHANGED <<databases, repositories, pools, listeners, loads, lastFill>>

\* Mutant: the client comes from the pool that was opened last.
ConnectCallback_LatestPool(i, err) ==
    /\ i \in 1..Len(conns)
    /\ LET client == IF elv(err) THEN Undefined ELSE ClientV(Len(pools))
           done == IF elv(err) THEN Undefined ELSE Release
       IN  /\ result' = PoolConnectCallback(conns[i].cbfn, err, client, done)
           /\ call' = Call("connect.callback",
                           IF elv(err) THEN <<err>> ELSE <<err, client, done>>, "")
    /\ conns' = RemoveAt(conns, i)
    /\ emitted' = << >>
    /\ effects' = (IF elv(conns[i].cbfn) THEN <<"callback">> ELSE << >>)
                  \o <<IF elv(err) THEN "reject" ELSE "resolve">>
    /\ shared' = shared /\ peer' = peer
    /\ UNCHANGED <<databases, repositories, pools, listeners, loads, lastFill>>

\* The pool calls back the function connect() gave it: with an error, or
\* with a client and its release function.
ConnectCallback(i, err) ==
    /\ i \in 1..Len(conns)
    /\ LET client == IF elv(err) THEN Undefined ELSE ClientV(conns[i].pool)
           done == IF elv(err) THEN Undefined ELSE Release
       IN  /\ result' = PoolConnectCallback(conns[i].cbfn, err, client, done)
           /\ call' = Call("connect.callback",
                           IF elv(err) THEN <<err>> ELSE <<err, client, done>>, "")
    /\ conns' = RemoveAt(conns, i)
    /\ emitted' = << >>
    /\ effects' = (IF elv(conns[i].cbfn) THEN <<"callback">> ELSE << >>)
                  \o <<IF Throws(conns[i].cbfn) THEN "throw"
                       ELSE IF elv(err) THEN "reject" ELSE "resolve">>
    /\ shared' = shared /\ peer' = peer
    /\ UNCHANGED <<databases, repositories, pools, listeners, loads, lastFill>>

\* Mutant: the base value is not handed to Kibbutz.
KibbutzNew_NoValue(val) == Obj(<<>>)

\* new Kibbutz(options), options = {value: val} if val is given: the value
\* the configurator starts from
KibbutzNew(val) == IF elv(val) THEN val ELSE Obj(<<>>)

\* new Kibbutz({value: val}) throws a TypeError for a value that is no object
KibbutzNewError(val) ==
    IF elv(val) /\ val.t # "object" THEN TypeError(Str("value")) ELSE Null

\* the positional arguments of load(providers, value, callback)
ArgProviders(args) == IF Len(args) >= 1 THEN args[1] ELSE Undefined
ArgValue(args) == IF Len(args) >= 2 THEN args[2] ELSE Undefined
ArgCallback(args) == IF Len(args) >= 3 THEN args[3] ELSE Undefined

\* Mutant: a function in second position is the callback, however many
\* arguments there are.
LoadShape_AnyFunctionSecond(args) ==
    IF typeof(ArgValue(args)) = "function"
    THEN [val |-> Undefined, cbfn |-> ArgValue(args)]
    ELSE [val |-> ArgValue(args), cbfn |-> ArgCallback(args)]

\* load(): which argument is the base value and which the callback
LoadShape(args) ==
    IF Len(args) = 2 /\ typeof(ArgValue(args)) = "function"
    THEN [val |-> Undefined, cbfn |-> ArgValue(args)]
    ELSE [val |-> ArgValue(args), cbfn |-> ArgCallback(args)]

\* Mutant: the callback is not asserted.
LoadUsageError_NoCallbackCheck(args) ==
    IF ArgProviders(args).t # "array"
    THEN TypeError(Msg("argProvidersArray"))
    ELSE IF Len(ArgProviders(args).items) = 0
    THEN TypeError(Msg("argProvidersLen"))
    ELSE Null

\* load(): the TypeError its argument checks throw, or null
LoadUsageError(args) ==
    IF ArgProviders(args).t # "array"
    THEN TypeError(Msg("argProvidersArray"))
    ELSE IF Len(ArgProviders(args).items) = 0
    THEN TypeError(Msg("argProvidersLen"))
    ELSE assertCallback(LoadShape(args).cbfn)

\* load(providers, value, callback) called with the arguments args, up to
\* the return of the promise.
Load(args) ==
    LET val == LoadShape(args).val
        cbfn == LoadShape(args).cbfn
        err == IF elv(LoadUsageError(args))
               THEN LoadUsageError(args)
               ELSE KibbutzNewError(val)
    IN  /\ ~elv(err) => Len(loads) + Len(conns) < MaxInFlight
        /\ loads' = IF elv(err) THEN loads
                    ELSE Append(loads, [providers |-> ArgProviders(args).items,
                                        next |-> 1,
                                        base |-> val,
                                        value |-> KibbutzNew(val),
                                        cbfn |-> cbfn])
        /\ result' = IF elv(err) THEN Throw("load", err)
                     ELSE Return("load", PromiseV("pending", Undefined))
        /\ emitted' = << >>
        /\ call' = Call("load", args, "")
        /\ effects' = << >>
        /\ shared' = shared /\ peer' = peer
        /\ UNCHANGED <<databases, repositories, pools, listeners, conns, lastFill>>

\* the invocation of a callback, if there is one, as an effect of a step
Called(cbfn) == IF elv(cbfn) THEN <<"callback">> ELSE << >>

\* Mutant: a provider's error is passed to the callback but the promise
\* resolves.
ConfiguratorLoadCallback_ResolvesOnError(cbfn, err, fillErr) ==
    IF elv(err)
    THEN [result |-> Settle("load.callback", "resolve", SelfV, cbfn, <<err>>),
          order |-> Called(cbfn) \o <<"resolve">>]
    ELSE IF elv(fillErr)
    THEN [result |-> Settle("load.callback", "reject", fillErr, cbfn, <<fillErr>>),
          order |-> Called(cbfn) \o <<"reject">>]
    ELSE [result |-> Settle("load.callback", "resolve", SelfV, cbfn, <<Null, SelfV>>),
          order |-> <<"done">> \o Called(cbfn) \o <<"resolve">>]

\* Mutant: what _fill returned is thrown, as add() does.
ConfiguratorLoadCallback_ThrowsFillErr(cbfn, err, fillErr) ==
    IF elv(err)
    THEN [result |-> Settle("load.callback", "reject", err, cbfn, <<err>>),
          order |-> Called(cbfn) \o <<"reject">>]
    ELSE IF elv(fillErr)
    THEN [result |-> Throw("load.callback", fillErr), order |-> <<"throw">>]
    ELSE [result |-> Settle("load.callback", "resolve", SelfV, cbfn, <<Null, SelfV>>),
          order |-> <<"done">> \o Called(cbfn) \o <<"resolve">>]

\* Mutant: 'done' is emitted after the callback was invoked.
ConfiguratorLoadCallback_CallbackBeforeDone(cbfn, err, fillErr) ==
    IF elv(err)
    THEN [result |-> Settle("load.callback", "reject", err, cbfn, <<err>>),
          order |-> Called(cbfn) \o <<"reject">>]
    ELSE IF elv(fillErr)
    THEN [result |-> Settle("load.callback", "reject", fillErr, cbfn, <<fillErr>>),
          order |-> Called(cbfn) \o <<"reject">>]
    ELSE [result |-> Settle("load.callback", "resolve", SelfV, cbfn, <<Null, SelfV>>),
          order |-> Called(cbfn) \o <<"done", "resolve">>]

\* Mutant: 'done' is not emitted.
ConfiguratorLoadCallback_NoDone(cbfn, err, fillErr) ==
    IF elv(err)
    THEN [result |-> Settle("load.callback", "reject", err, cbfn, <<err>>),
          order |-> Called(cbfn) \o <<"reject">>]
    ELSE IF elv(fillErr)
    THEN [result |-> Settle("load.callback", "reject", fillErr, cbfn, <<fillErr>>),
          order |-> Called(cbfn) \o <<"reject">>]
    ELSE [result |-> Settle("load.callback", "resolve", SelfV, cbfn, <<Null, SelfV>>),
          order |-> Called(cbfn) \o <<"resolve">>]

\* Mutant: 'done' is emitted for a merged object that _fill refused, too.
ConfiguratorLoadCallback_DoneOnFault(cbfn, err, fillErr) ==
    IF elv(err)
    THEN [result |-> Settle("load.callback", "reject", err, cbfn, <<err>>),
          order |-> Called(cbfn) \o <<"reject">>]
    ELSE IF elv(fillErr)
    THEN [result |-> Settle("load.callback", "reject", fillErr, cbfn, <<fillErr>>),
          order |-> <<"done">> \o Called(cbfn) \o <<"reject">>]
    ELSE [result |-> Settle("load.callback", "resolve", SelfV, cbfn, <<Null, SelfV>>),
          order |-> <<"done">> \o Called(cbfn) \o <<"resolve">>]

\* The function load() hands to configurator.load, called with (err) or
\* with (null, conf) where _fill(conf) returned fillErr: the callback
\* invocation it makes and how it settles the promise, and what it does in
\* order: emit 'done', invoke the callback, resolve or reject.
ConfiguratorLoadCallback(cbfn, err, fillErr) ==
    IF elv(err)
    THEN [result |-> Settle("load.callback", "reject", err, cbfn, <<err>>),
          order |-> Called(cbfn) \o <<"reject">>]
    ELSE IF elv(fillErr)
    THEN [result |-> Settle("load.callback", "reject", fillErr, cbfn, <<fillErr>>),
          order |-> Called(cbfn) \o <<"reject">>]
    ELSE [result |-> Settle("load.callback", "resolve", SelfV, cbfn, <<Null, SelfV>>),
          order |-> <<"done">> \o Called(cbfn) \o <<"resolve">>]

\* the effects of a step include the given one
Does(order, effect) == \E k \in 1..Len(order) : order[k] = effect

\* Mutant: the merged conf is applied to a Registry without repositories.
ConfiguratorLoadFill_DropsRepositories(self, conf) ==
    Fill([self EXCEPT !.repositories = << >>], conf)

\* self._fill(conf) in the function load() hands to configurator.load
ConfiguratorLoadFill(self, conf) == Fill(self, conf)

\* Mutant: the databases of every fragment are stored as it arrives.
LoadCallback_AppliesEachFragment(i) ==
    /\ i \in 1..Len(loads)
    /\ LET l == loads[i]
           yields == l.providers[l.next].yields
           conf == Merge(l.value, yields)
           fillErr == ConfiguratorLoadFill(Self, conf)
       IN  IF yields.t = "error"
           THEN /\ result' = ConfiguratorLoadCallback(l.cbfn, yields, Null).result
                /\ effects' = ConfiguratorLoadCallback(l.cbfn, yields, Null).order
                /\ emitted' = << >>
                /\ call' = Call("load.callback", <<yields>>, "")
                /\ loads' = RemoveAt(loads, i)
                /\ UNCHANGED <<databases, repositories, pools, lastFill>>
           ELSE IF l.next < Len(l.providers)
           THEN /\ result' = [op |-> "load.config", outcome |-> "pending",
                              value |-> Undefined, cb |-> <<>>]
                /\ effects' = <<"config">>
                /\ emitted' = <<Emit("config", yields)>>
                /\ call' = Call("load.callback", <<Null, yields>>, "")
                /\ loads' = [loads EXCEPT ![i].next = @ + 1, ![i].value = conf]
                /\ Len(FillDatabasesMap(Self, Get(conf, "databases")).self.pools) <= MaxPools
                /\ databases' = FillDatabasesMap(Self, Get(conf, "databases")).self.databases
                /\ pools' = FillDatabasesMap(Self, Get(conf, "databases")).self.pools
                /\ UNCHANGED <<repositories, lastFill>>
           ELSE LET settled == ConfiguratorLoadCallback(l.cbfn, Null, fillErr.ret)
                IN  /\ Len(fillErr.self.pools) <= MaxPools
                    /\ databases' = fillErr.self.databases
                    /\ repositories' = fillErr.self.repositories
                    /\ pools' = fillErr.self.pools
                    /\ lastFill' = FillRecord(conf, fillErr.ret)
                    /\ loads' = RemoveAt(loads, i)
                    /\ call' = Call("load.callback", <<Null, yields>>, "")
                    /\ result' = settled.result
                    /\ effects' = <<"config", "fill">> \o settled.order
                    /\ emitted' = <<Emit("config", yields)>>
                                  \o (IF Does(settled.order, "done")
                                      THEN <<Emit("done", conf)>> ELSE << >>)
    /\ UNCHANGED <<listeners, conns, shared, peer>>

\* Mutant: what is merged and applied is the value of the load that was
\* called first of those in flight.
LoadCallback_OldestSnapshot(i) ==
    /\ i \in 1..Len(loads)
    /\ LET l == [loads[1] EXCEPT !.next = loads[i].next, !.providers = loads[i].providers]
           yields == l.providers[l.next].yields
           conf == Merge(l.value, yields)
           fillErr == ConfiguratorLoadFill(Self, conf)
       IN  IF yields.t = "error"
           THEN /\ result' = ConfiguratorLoadCallback(l.cbfn, yields, Null).result
                /\ effects' = ConfiguratorLoadCallback(l.cbfn, yields, Null).order
                /\ emitted' = << >>
                /\ call' = Call("load.callback", <<yields>>, "")
                /\ loads' = RemoveAt(loads, i)
                /\ UNCHANGED <<databases, repositories, pools, lastFill>>
           ELSE IF l.next < Len(l.providers)
           THEN /\ result' = [op |-> "load.config", outcome |-> "pending",
                              value |-> Undefined, cb |-> <<>>]
                /\ effects' = <<"config">>
                /\ emitted' = <<Emit("config", yields)>>
                /\ call' = Call("load.callback", <<Null, yields>>, "")
                /\ loads' = [loads EXCEPT ![i].next = @ + 1, ![i].value = conf]
                /\ UNCHANGED <<databases, repositories, pools, lastFill>>
           ELSE LET settled == ConfiguratorLoadCallback(l.cbfn, Null, fillErr.ret)
                IN  /\ Len(fillErr.self.pools) <= MaxPools
                    /\ databases' = fillErr.self.databases
                    /\ repositories' = fillErr.self.repositories
                    /\ pools' = fillErr.self.pools
                    /\ lastFill' = FillRecord(conf, fillErr.ret)
                    /\ loads' = RemoveAt(loads, i)
                    /\ call' = Call("load.callback", <<Null, yields>>, "")
                    /\ result' = settled.result
                    /\ effects' = <<"config", "fill">> \o settled.order
                    /\ emitted' = <<Emit("config", yields)>>
                                  \o (IF Does(settled.order, "done")
                                      THEN <<Emit("done", conf)>> ELSE << >>)
    /\ UNCHANGED <<listeners, conns, shared, peer>>

\* The next provider of the i-th load in flight calls back.  An error ends
\* the load.  A fragment is announced with 'config' and merged; after the
\* last one configurator.load calls back with the merged conf, which is
\* applied with _fill.
LoadCallback(i) ==
    /\ i \in 1..Len(loads)
    /\ LET l == loads[i]
           yields == l.providers[l.next].yields
           conf == Merge(l.value, yields)
           fillErr == ConfiguratorLoadFill(Self, conf)
       IN  IF yields.t = "error"
           THEN /\ result' = ConfiguratorLoadCallback(l.cbfn, yields, Null).result
                /\ effects' = ConfiguratorLoadCallback(l.cbfn, yields, Null).order
                /\ emitted' = << >>
                /\ call' = Call("load.callback", <<yields>>, "")
                /\ loads' = RemoveAt(loads, i)
                /\ UNCHANGED <<databases, repositories, pools, lastFill>>
           ELSE IF l.next < Len(l.providers)
           THEN /\ result' = [op |-> "load.config", outcome |-> "pending",
                              value |-> Undefined, cb |-> <<>>]
                /\ effects' = <<"config">>
                /\ emitted' = <<Emit("config", yields)>>
                /\ call' = Call("load.callback", <<Null, yields>>, "")
                /\ loads' = [loads EXCEPT ![i].next = @ + 1, ![i].value = conf]
                /\ UNCHANGED <<databases, repositories, pools, lastFill>>
           ELSE LET settled == ConfiguratorLoadCallback(l.cbfn, Null, fillErr.ret)
                IN  /\ Len(fillErr.self.pools) <= MaxPools
                    /\ databases' = fillErr.self.databases
                    /\ repositories' = fillErr.self.repositories
                    /\ pools' = fillErr.self.pools
                    /\ lastFill' = FillRecord(conf, fillErr.ret)
                    /\ loads' = RemoveAt(loads, i)
                    /\ call' = Call("load.callback", <<Null, yields>>, "")
                    /\ result' = settled.result
                    /\ effects' = <<"config", "fill">> \o settled.order
                    /\ emitted' = <<Emit("config", yields)>>
                                  \o (IF Does(settled.order, "done")
                                      THEN <<Emit("done", conf)>> ELSE << >>)
    /\ UNCHANGED <<listeners, conns, shared, peer>>

\* The caller makes this call only when the calls in flight after it are
\* no more than MaxPending.
OneAfterTheOther == Len(loads') + Len(conns') <= MaxPending

----------------------------------------------------------------------------
(* Inputs *)

DbKeys == {"d1", "d2"}
RepoKeys == {"r1", "r2"}

\* a database config with the given host
DbConf(host) == Obj(<<[key |-> "host", value |-> host]>>)

OkDb == DbConf(Str("h"))

\* values found under a key of `databases`: a valid config, an empty host,
\* a missing host, a host that is no string, and values that are no object
DbConfValues == {OkDb, DbConf(Str("")), Obj(<<>>), DbConf(Num), Str("wrong!"), Null}

\* values found under a key of `repositories`
RepoConfValues == {Str("d1"), Str("d2"), Str(""), Num}

\* the entry lists of an object over the given keys, all different
EntrySeqs(keys, values) ==
    UNION {{es \in [1..k -> [key : keys, value : values]] :
               \A i, j \in 1..k : i # j => es[i].key # es[j].key} : k \in 0..Cardinality(keys)}

\* an object with the given keys and values, in that order
ObjOf(keys, values) == Obj([i \in 1..Len(keys) |-> [key |-> keys[i], value |-> values[i]]])

\* `databases` values: missing, no plain object, empty, valid ones, and ones
\* whose first or second entry is invalid
DatabasesValues ==
    {Undefined, DateV, Obj(<<>>),
     ObjOf(<<"d1">>, <<OkDb>>), ObjOf(<<"d2">>, <<OkDb>>),
     ObjOf(<<"d1", "d2">>, <<OkDb, OkDb>>)}
    \cup {ObjOf(<<"d1">>, <<bad>>) : bad \in {DbConf(Str("")), Str("wrong!")}}
    \cup {ObjOf(<<"d1", "d2">>, <<OkDb, bad>>) : bad \in {DbConf(Str(""))}}

\* `repositories` values: missing, no plain object, empty, valid ones, and
\* ones whose first or second entry is no database name
RepositoriesValues ==
    {Undefined, Arr, Obj(<<>>),
     ObjOf(<<"r1">>, <<Str("d1")>>), ObjOf(<<"r2">>, <<Str("d1")>>),
     ObjOf(<<"r1">>, <<Str("d2")>>),
     ObjOf(<<"r1", "r2">>, <<Str("d1"), Str("d1")>>),
     ObjOf(<<"r1", "r2">>, <<Str("d1"), Str("d2")>>),
     ObjOf(<<"r1">>, <<Str("")>>),
     ObjOf(<<"r1", "r2">>, <<Str("d1"), Num>>)}

\* a configuration object; an undefined key is an absent key
Conf(dbs, repos) ==
    Obj(SelectSeq(<<[key |-> "databases", value |-> dbs],
                    [key |-> "repositories", value |-> repos]>>,
                  LAMBDA e : e.value.t # "undefined"))

Snapshots == {Conf(d, r) : d \in DatabasesValues, r \in RepositoriesValues}

----------------------------------------------------------------------------
(* The Registry under every snapshot: add() called with one fragment, which *)
(* is then the merged snapshot.                                             *)

NextFill == \E conf \in Snapshots : Add(<<conf>>)

SpecFill == Init /\ [][NextFill]_vars

----------------------------------------------------------------------------
(* add() under every way of passing fragments: none, one, several as        *)
(* separate arguments, as one array, and as a mix of both.                  *)

\* a fragment with one valid database, and one that maps one repository
DbOnly(d) == Conf(ObjOf(<<d>>, <<OkDb>>), Undefined)
RepoOnly(r, d) == Conf(Undefined, ObjOf(<<r>>, <<Str(d)>>))

AddFragments ==
    {DbOnly("d1"), DbOnly("d2"),
     RepoOnly("r1", "d1"), RepoOnly("r2", "d1"), RepoOnly("r1", "d2"),
     Conf(ObjOf(<<"d2">>, <<DbConf(Str(""))>>), Undefined),
     Conf(ObjOf(<<"d1">>, <<OkDb>>), ObjOf(<<"r1">>, <<Str("d1")>>))}

\* no database key and no repository key is given by both fragments
Disjoint(f, g) ==
    /\ \A i \in 1..Len(Keys(f)), j \in 1..Len(Keys(g)) :
          Keys(f)[i] = Keys(g)[j] =>
              \A k \in 1..Len(Keys(Get(f, Keys(f)[i]))) :
                  ~HasKey(Get(g, Keys(g)[j]), Keys(Get(f, Keys(f)[i]))[k])

\* the argument lists of add(): fragments that never give one key twice
AddArgLists ==
    {<<>>}
    \cup {<<f>> : f \in AddFragments}
    \cup {<<ArrOf(<<f>>)>> : f \in AddFragments}
    \cup UNION {{<<p[1], p[2]>>, <<ArrOf(<<p[1], p[2]>>)>>, <<p[1], ArrOf(<<p[2]>>)>>} :
                   p \in {q \in AddFragments \X AddFragments : Disjoint(q[1], q[2])}}
    \cup {<<DbOnly("d1"), ArrOf(<<RepoOnly("r1", "d1"), RepoOnly("r2", "d1")>>)>>,
          <<ArrOf(<<RepoOnly("r2", "d1"), RepoOnly("r1", "d2")>>), DbOnly("d2"),
            DbOnly("d1")>>}

NextAdd == \E args \in AddArgLists : Add(args)

SpecAdd == Init /\ [][NextAdd]_vars

----------------------------------------------------------------------------
(* The Connector under all its operations.  Fragments as the tests and the  *)
(* README give them: a whole configuration, repositories only, databases    *)
(* only, and an invalid database.                                           *)

FullFrag == Conf(ObjOf(<<"d1">>, <<OkDb>>), ObjOf(<<"r1">>, <<Str("d1")>>))
RepoFrag == Conf(Undefined, ObjOf(<<"r2">>, <<Str("d1")>>))
DbFrag == Conf(ObjOf(<<"d2">>, <<OkDb>>), Undefined)
BadFrag == Conf(ObjOf(<<"d2">>, <<DbConf(Str(""))>>), ObjOf(<<"r1">>, <<Str("d2")>>))

\* a Kibbutz provider: its load(callback) yields a fragment or an error
Provider(yields) == [t |-> "provider", yields |-> yields]

\* the argument lists of add()
AddArgs == {<<>>, <<FullFrag>>, <<DbFrag, RepoFrag>>, <<BadFrag>>}

\* the argument lists of load()
LoadArgs ==
    {<<Arr>>,
     <<ArrOf(<<Provider(FullFrag)>>)>>,
     <<ArrOf(<<Provider(DbFrag)>>), RepoFrag, Fn>>,
     <<ArrOf(<<Provider(DbFrag), Provider(ErrorV("provider"))>>), Fn>>,
     <<ArrOf(<<Provider(BadFrag)>>)>>}

\* the arguments of connect(), and what the pool's connect() does
ConnectArgs ==
    {<<Str("r1"), Fn, "calls back">>,
     <<Str("r2"), Undefined, "calls back">>,
     <<Str("r1"), Undefined, "throws">>,
     <<Num, Undefined, "calls back">>}

\* the arguments of on()
OnArgs == {<<Str("config"), Fn>>, <<Str("done"), Fn>>, <<Str("error"), Fn>>,
           <<Str("close"), Fn>>}

Next ==
    \/ \E args \in AddArgs : Add(args)
    \/ \E r \in {Str("r1"), Str("r2")} : GetPool(r)
    \/ \E a \in OnArgs : On(a[1], a[2])
    \/ \E a \in ConnectArgs : Connect(a[1], a[2], a[3]) /\ OneAfterTheOther
    \/ \E i \in 1..MaxPending, err \in {Null, ErrorV("pool")} : ConnectCallback(i, err)
    \/ \E args \in LoadArgs : Load(args) /\ OneAfterTheOther
    \/ \E i \in 1..MaxPending : LoadCallback(i)

Spec == Init /\ [][Next]_vars

----------------------------------------------------------------------------
(* connect() and getPool() under every kind of repository argument and      *)
(* callback, on pools that call back, fail or throw, with and without a     *)
(* listener of 'error'.                                                     *)

\* repository arguments: registered by FullFrag, registered by RepoFrag after it,
\* never registered, empty, and no string
RepositoryArgs == {Str("r1"), Str("r2"), Str("blorg"), Str(""), Num, Undefined}

\* callback arguments: none, a function, and no function
CallbackArgs == {Undefined, FnNamed("callback"), Num}

\* what pool.connect(callback) does: keeps the callback, or throws
Drivers == {"calls back", "throws"}

NextConnect ==
    \/ \E args \in {<<FullFrag>>, <<DbFrag, RepoFrag>>} : Add(args)
    \/ \E r \in RepositoryArgs : GetPool(r)
    \/ On(Str("error"), FnNamed("listener"))
    \/ \E r \in RepositoryArgs, c \in CallbackArgs, d \in Drivers : Connect(r, c, d) /\ OneAfterTheOther
    \/ \E i \in 1..MaxPending, err \in {Null, ErrorV("pool")} : ConnectCallback(i, err)

SpecConnect == Init /\ [][NextConnect]_vars

----------------------------------------------------------------------------
(* load() under every shape of its arguments, with providers that yield      *)
(* fragments or fail, on an empty Registry and on one that has d1 and r1.    *)

\* lists of providers
OneProvider(yields) == ArrOf(<<Provider(yields)>>)
FailingProvider == Provider(ErrorV("provider"))

\* argument lists that load() refuses
LoadFaultArgs ==
    {<<>>, <<Num>>, <<Arr>>, <<Arr, FnNamed("callback")>>,
     <<OneProvider(FullFrag), Null, Num>>,
     <<OneProvider(FullFrag), RepoFrag, Str("callback")>>,
     <<OneProvider(FullFrag), Num>>,
     <<OneProvider(FullFrag), FnNamed("second"), FnNamed("third")>>}

\* argument lists that load() accepts: one, two and three arguments, with
\* and without a base value and a callback
LoadOkArgs ==
    {<<OneProvider(FullFrag)>>,
     <<OneProvider(BadFrag)>>,
     <<ArrOf(<<FailingProvider>>)>>,
     <<ArrOf(<<Provider(DbFrag), FailingProvider>>), FnNamed("callback")>>,
     <<ArrOf(<<FailingProvider>>), Null, FnNamed("callback")>>,
     <<OneProvider(BadFrag), Null, FnNamed("callback")>>,
     <<OneProvider(DbFrag), RepoFrag>>,
     <<OneProvider(DbFrag), RepoFrag, FnNamed("callback")>>}

NextLoad ==
    \/ Add(<<FullFrag>>)
    \/ On(Str("done"), FnNamed("listener"))
    \/ \E args \in LoadFaultArgs \cup LoadOkArgs : Load(args) /\ OneAfterTheOther
    \/ \E i \in 1..MaxPending : LoadCallback(i)

SpecLoad == Init /\ [][NextLoad]_vars

----------------------------------------------------------------------------
(* The notifications of load(): listeners of each event, and loads over one *)
(* and two providers that end well, fail in a provider, or yield an invalid *)
(* configuration.                                                           *)

EventLoadArgs ==
    {<<OneProvider(FullFrag)>>,
     <<ArrOf(<<Provider(FullFrag), Provider(RepoFrag)>>), FnNamed("callback")>>,
     <<ArrOf(<<Provider(DbFrag), FailingProvider>>), FnNamed("callback")>>,
     <<OneProvider(BadFrag), Null, FnNamed("callback")>>}

\* on() of each event, and the calls it refuses: a name that is no event, no
\* string or empty, and a listener that is no function
EventOnArgs ==
    {<<Str(e), FnNamed("listener")>> : e \in EventNames}
        \cup {<<Str("close"), FnNamed("listener")>>, <<Num, FnNamed("listener")>>,
              <<Str(""), FnNamed("listener")>>, <<Str("done"), Num>>,
              <<Str("close"), Undefined>>}

NextEvents ==
    \/ \E a \in EventOnArgs : On(a[1], a[2])
    \/ \E args \in EventLoadArgs : Load(args) /\ OneAfterTheOther
    \/ \E i \in 1..MaxPending : LoadCallback(i)

SpecEvents == Init /\ [][NextEvents]_vars

----------------------------------------------------------------------------
(* The shared slot: it is set and read while a Connector is configured and
   listened to. *)

\* a Connector that is not this one
OtherConnector == [t |-> "connector", id |-> 2]

\* null, this Connector, another one, and values that are no Connector
SharedArgs == {Null, SelfV, OtherConnector, Undefined, Num, Str("shared"), Obj(<< >>)}

NextShared ==
    \/ \E val \in SharedArgs : SetShared(val)
    \/ GetShared
    \/ Add(<<FullFrag>>)
    \/ \E r \in {Str("r1"), Str("r2")} : GetPool(r)
    \/ \E e \in EventNames : On(Str(e), FnNamed("listener"))

SpecShared == Init /\ [][NextShared]_vars

----------------------------------------------------------------------------
(* Calls that overlap: loads and connects are made while others are in
   flight, and add and getPool are called in between. *)

\* a load of one valid snapshot, a load of two fragments whose merged
\* object is valid once d1 is in the Registry, and a load whose second
\* provider fails
OverlapLoadArgs ==
    {<<OneProvider(FullFrag), FnNamed("first")>>,
     <<ArrOf(<<Provider(DbFrag), Provider(RepoFrag)>>), FnNamed("second")>>,
     <<ArrOf(<<Provider(DbFrag), FailingProvider>>)>>}

\* connects of r1 with different callbacks, and with a driver that throws
OverlapConnectArgs ==
    {<<Str("r1"), FnNamed("a"), "calls back">>,
     <<Str("r1"), FnNamed("b"), "calls back">>,
     <<Str("r1"), Undefined, "throws">>}

NextOverlap ==
    \/ Add(<<FullFrag>>)
    \/ GetPool(Str("r1"))
    \/ \E a \in OverlapConnectArgs : Connect(a[1], a[2], a[3])
    \/ \E i \in 1..MaxInFlight, err \in {Null, ErrorV("pool")} : ConnectCallback(i, err)
    \/ \E args \in OverlapLoadArgs : Load(args)
    \/ \E i \in 1..MaxInFlight : LoadCallback(i)

SpecOverlap == Init /\ [][NextOverlap]_vars

----------------------------------------------------------------------------
(* connect() with no callback, with a callback that returns and with one
   that throws. *)

ThrowingCallbackArgs == {Undefined, FnNamed("callback"), FnThrowing("callback")}

NextThrowingCallback ==
    \/ Add(<<FullFrag>>)
    \/ On(Str("error"), FnNamed("listener"))
    \/ \E c \in ThrowingCallbackArgs, d \in Drivers : Connect(Str("r1"), c, d)
    \/ \E i \in 1..MaxInFlight, err \in {Null, ErrorV("pool")} : ConnectCallback(i, err)

SpecThrowingCallback == Init /\ [][NextThrowingCallback]_vars

----------------------------------------------------------------------------
(* Two Connectors: every operation of this one in its outcomes, and add on
   the other one. *)

\* a snapshot that maps r1 to d2
OtherFrag == Conf(ObjOf(<<"d2">>, <<OkDb>>), ObjOf(<<"r1">>, <<Str("d2")>>))

NextFrame ==
    \/ \E args \in {<<FullFrag>>, <<BadFrag>>} : Add(args)
    \/ \E args \in {<<OtherFrag>>, <<BadFrag>>} : PeerAdd(args)
    \/ \E r \in {Str("r1"), Str("r2")} : GetPool(r)
    \/ \E a \in OnArgs : On(a[1], a[2])
    \/ \E a \in ConnectArgs : Connect(a[1], a[2], a[3]) /\ OneAfterTheOther
    \/ \E i \in 1..MaxPending, err \in {Null, ErrorV("pool")} : ConnectCallback(i, err)
    \/ \E val \in {Null, SelfV, OtherConnector, Num} : SetShared(val)
    \/ GetShared
    \/ Load(<<OneProvider(FullFrag)>>) /\ OneAfterTheOther
    \/ \E i \in 1..MaxPending : LoadCallback(i)

SpecFrame == Init /\ [][NextFrame]_vars

----------------------------------------------------------------------------
(* Vocabulary of the properties *)

\* this step ran _fill
FillStep == lastFill' # lastFill \/ pools' # pools

Registry == <<databases, repositories, pools>>

IsConfigurationError(e) == e.t = "error" /\ e.type = "ConfigurationError"

\* the snapshot's `databases` / `repositories` entries, none if it is no object
EntriesOf(conf, name) ==
    IF Get(conf, name).t = "object" THEN Get(conf, name).entries ELSE <<>>

SnapshotDbKeys(conf) == {e.key : e \in {EntriesOf(conf, "databases")[i] :
                                          i \in 1..Len(EntriesOf(conf, "databases"))}}

SnapshotRepos(conf) == {EntriesOf(conf, "repositories")[i] :
                           i \in 1..Len(EntriesOf(conf, "repositories"))}

\* A snapshot that is valid by itself: a non-empty `databases` object of
\* objects with a non-empty string host, and a non-empty `repositories`
\* object of non-empty strings naming keys of that `databases`.
ValidSnapshot(conf) ==
    /\ Get(conf, "databases").t = "object"
    /\ Get(conf, "repositories").t = "object"
    /\ SnapshotDbKeys(conf) # {}
    /\ SnapshotRepos(conf) # {}
    /\ \A i \in 1..Len(EntriesOf(conf, "databases")) :
          LET v == EntriesOf(conf, "databases")[i].value
          IN  v.t = "object" /\ Get(v, "host").t = "string" /\ Get(v, "host").s # ""
    /\ \A e \in SnapshotRepos(conf) :
          e.value.t = "string" /\ e.value.s # "" /\ e.value.s \in SnapshotDbKeys(conf)

\* the entry stored under key (absent or not) is the same in both maps
SameEntry(map1, map2, key) ==
    /\ key \in DOMAIN map1 <=> key \in DOMAIN map2
    /\ key \in DOMAIN map1 => map1[key] = map2[key]

----------------------------------------------------------------------------
(* Properties of the Registry *)

\* C1: a _fill that returns an error (the merged snapshot fails validation
\* at any point) leaves databases and repositories as they were and opens
\* no pool.
C1_SnapshotAtomic ==
    [][(FillStep /\ elv(lastFill'.ret)) => Registry' = Registry]_vars

\* C2: in every reachable state, the pool of every repository entry is the
\* pool of the database entry its databaseName names.
C2_RepoPoolIsDatabasePool ==
    \A r \in DOMAIN repositories :
        /\ repositories[r].databaseName \in DOMAIN databases
        /\ repositories[r].pool = databases[repositories[r].databaseName].pool

\* C3: in every reachable state, two repositories mapped to the same
\* database name have one and the same pool.
C3_OnePoolPerDatabase ==
    \A r, q \in DOMAIN repositories :
        repositories[r].databaseName = repositories[q].databaseName
            => repositories[r].pool = repositories[q].pool

\* the repository entries of the snapshot whose value names a database
\* outside the given set of names
NamingOutside(conf, names) ==
    {e \in SnapshotRepos(conf) : isNonEmptyString(e.value) /\ e.value.s \notin names}

\* C4: no dangling references.  In every state each repository entry's
\* databaseName is a key of databases; and a _fill whose snapshot maps a
\* repository to a name that is no key of databases when the mapping is
\* examined returns a ConfigurationError and does not store that mapping.
C4_NoDanglingReference ==
    [][/\ \A r \in DOMAIN repositories' :
             repositories'[r].databaseName \in DOMAIN databases'
       /\ FillStep =>
             \A e \in NamingOutside(lastFill'.conf, DOMAIN databases') :
                 /\ IsConfigurationError(lastFill'.ret)
                 /\ SameEntry(repositories, repositories', e.key)]_vars

\* C4 witness: a snapshot mapped r1 to d2 while only d1 was registered; the
\* call ended with the missing-database fault and r1 is not stored.
C4_Witness ==
    /\ lastFill.ret.t = "error"
    /\ lastFill.ret.message = msg.repoConfMapping
    /\ lastFill.ret.data = DataKeyValue("r1", Str("d2"))
    /\ "d1" \in DOMAIN databases
    /\ "d2" \notin DOMAIN databases
    /\ "r1" \notin DOMAIN repositories

C5_EntriesNeverDeleted ==
    [][/\ DOMAIN databases \subseteq DOMAIN databases'
       /\ DOMAIN repositories \subseteq DOMAIN repositories'
       /\ \A r \in RepoKeys :
             ~elv(AssertRepo(Self, Str(r))) => ~elv(AssertRepo(Self', Str(r)))]_vars

\* C5 witness: after r1 was registered another application failed, and
\* getPool("r1") still returns a pool.
C5_Witness ==
    /\ IsConfigurationError(lastFill.ret)
    /\ lastFill.base >= 1
    /\ result.op = "getPool"
    /\ result.outcome = "return"
    /\ result.value = PoolV(repositories["r1"].pool)

\* a fragment that supplies valid databases only, none of them named in names
SuppliesOtherDatabases(fragment, names) ==
    /\ fragment.t = "object"
    /\ Keys(fragment) = <<"databases">>
    /\ Get(fragment, "databases").t = "object"
    /\ SnapshotDbKeys(fragment) # {}
    /\ SnapshotDbKeys(fragment) \cap names = {}
    /\ \A i \in 1..Len(EntriesOf(fragment, "databases")) :
          ~elv(validateDatabaseConf(EntriesOf(fragment, "databases")[i].key,
                                    EntriesOf(fragment, "databases")[i].value))

\* a base value that only maps repositories, each to a registered database
MapsToRegistered(base, registered) ==
    /\ base.t = "object"
    /\ Keys(base) = <<"repositories">>
    /\ SnapshotRepos(base) # {}
    /\ \A e \in SnapshotRepos(base) : isNonEmptyString(e.value) /\ e.value.s \in registered

LacksMaps(conf) ==
    \E name \in {"databases", "repositories"} :
        Get(conf, name).t # "object" \/ Len(Get(conf, name).entries) = 0

\* C8: every _fill of a snapshot that does not carry both a non-empty
\* databases object and a non-empty repositories object returns a
\* ConfigurationError, whatever the Registry already holds.
C8_SnapshotCarriesBothMaps ==
    (lastFill.ret.t # "undefined" /\ LacksMaps(lastFill.conf))
        => IsConfigurationError(lastFill.ret)

\* C8 witness: a snapshot with repositories only, whose one repository names
\* the already registered d1, was rejected.
C8_Witness ==
    /\ lastFill.conf = Conf(Undefined, ObjOf(<<"r2">>, <<Str("d1")>>))
    /\ "d1" \in DOMAIN databases
    /\ IsConfigurationError(lastFill.ret)
    /\ "r2" \notin DOMAIN repositories

\* C9: after a _fill of a valid snapshot has returned null, every repository
\* r of the snapshot is stored with the pool that this _fill opened for the
\* database repositories[r], which is also the pool of that database entry.
C9_ResolvesToOpenedPool ==
    (lastFill.ret = Null /\ ValidSnapshot(lastFill.conf)) =>
        \A e \in SnapshotRepos(lastFill.conf) :
            /\ e.key \in DOMAIN repositories
            /\ repositories[e.key].databaseName = e.value.s
            /\ LET p == repositories[e.key].pool
               IN  /\ p \in (lastFill.base + 1)..Len(pools)
                   /\ pools[p].key = e.value.s
                   /\ databases[e.value.s].pool = p

\* C9 witness: a valid snapshot was applied to a Registry that already had a
\* pool, and r1 now has the second pool.
C9_Witness ==
    /\ lastFill.ret = Null
    /\ ValidSnapshot(lastFill.conf)
    /\ lastFill.base = 1
    /\ "r1" \in DOMAIN repositories
    /\ repositories["r1"].pool = 2

\* C10: a _fill of the valid snapshot that the _fill before it applied
\* returns null and changes neither the keys of databases, nor the keys of
\* repositories, nor any repository's databaseName; each database key of the
\* snapshot gets a pool that did not exist before, each repository of the
\* snapshot gets the new pool of its database, and every other entry stays.
C10_IdempotentButReopens ==
    [][(FillStep /\ lastFill'.repeat /\ ValidSnapshot(lastFill'.conf)) =>
          /\ lastFill'.ret = Null
          /\ DOMAIN databases' = DOMAIN databases
          /\ DOMAIN repositories' = DOMAIN repositories
          /\ \A d \in DOMAIN databases :
                IF d \in SnapshotDbKeys(lastFill'.conf)
                THEN databases'[d].pool \in (Len(pools) + 1)..Len(pools')
                ELSE databases'[d] = databases[d]
          /\ \A r \in DOMAIN repositories :
                /\ repositories'[r].databaseName = repositories[r].databaseName
                /\ IF r \in {e.key : e \in SnapshotRepos(lastFill'.conf)}
                   THEN repositories'[r].pool
                            = databases'[repositories'[r].databaseName].pool
                   ELSE repositories'[r] = repositories[r]]_vars

\* C10 witness: the same valid snapshot was applied twice in a row; r1 has
\* the pool of the second application.
C10_Witness ==
    /\ lastFill.repeat
    /\ lastFill.ret = Null
    /\ ValidSnapshot(lastFill.conf)
    /\ Len(pools) = 2
    /\ "r1" \in DOMAIN repositories
    /\ repositories["r1"].pool = 2

----------------------------------------------------------------------------
(* Properties of add *)

\* A merged snapshot that passes validation against a Registry whose
\* databases has the keys `registered`: both maps are non-empty objects,
\* every database is an object with a non-empty string host, and every
\* repository is a non-empty string that names a database of the snapshot
\* or of the Registry.
PassesValidation(conf, registered) ==
    /\ Get(conf, "databases").t = "object"
    /\ Get(conf, "repositories").t = "object"
    /\ SnapshotDbKeys(conf) # {}
    /\ SnapshotRepos(conf) # {}
    /\ \A i \in 1..Len(EntriesOf(conf, "databases")) :
          LET v == EntriesOf(conf, "databases")[i].value
          IN  v.t = "object" /\ Get(v, "host").t = "string" /\ Get(v, "host").s # ""
    /\ \A e \in SnapshotRepos(conf) :
          /\ e.value.t = "string"
          /\ e.value.s # ""
          /\ e.value.s \in SnapshotDbKeys(conf) \cup registered

\* C11: add with zero arguments returns the Connector and leaves the
\* Registry unchanged; add whose merged snapshot passes validation returns
\* the Connector; add whose merged snapshot fails validation throws a
\* ConfigurationError, and what add returns is never an error.
C11_AddOutcomes ==
    [][call'.op = "add" =>
          /\ result'.op = "add"
          /\ result'.outcome = "return" => result'.value = SelfV
          /\ IF Len(call'.args) = 0
             THEN result'.outcome = "return" /\ Registry' = Registry
             ELSE IF PassesValidation(lastFill'.conf, DOMAIN databases)
             THEN result'.outcome = "return"
             ELSE /\ result'.outcome = "throw"
                  /\ IsConfigurationError(result'.value)]_vars

\* C11 witness: r1 and d1 are registered and add was called with a snapshot
\* whose database d2 has an empty host: add threw the ConfigurationError
\* that names d2.
C11_Witness ==
    /\ call.op = "add"
    /\ "r1" \in DOMAIN repositories
    /\ result.outcome = "throw"
    /\ IsConfigurationError(result.value)
    /\ result.value.message = msg.dbConfHostStr
    /\ result.value.data = DataKeyValue("d2", DbConf(Str("")))

\* the fragments of an argument list: the arguments that are no array and
\* the items of those that are
FragmentsOf(args) ==
    {args[i] : i \in {j \in 1..Len(args) : args[j].t # "array"}}
    \cup UNION {{args[i].items[k] : k \in 1..Len(args[i].items)} :
                   i \in {j \in 1..Len(args) : args[j].t = "array"}}

\* Fragments that together make a snapshot the Registry accepts: every
\* database any of them gives is valid, and every repository any of them
\* gives names a database that one of them gives or that is registered.
FragmentsFit(frags, registered) ==
    /\ \E f \in frags : SnapshotDbKeys(f) # {}
    /\ \E f \in frags : SnapshotRepos(f) # {}
    /\ \A f \in frags :
          /\ \A i \in 1..Len(EntriesOf(f, "databases")) :
                ~elv(validateDatabaseConf(EntriesOf(f, "databases")[i].key,
                                          EntriesOf(f, "databases")[i].value))
          /\ \A e \in SnapshotRepos(f) :
                /\ isNonEmptyString(e.value)
                /\ e.value.s \in registered
                                  \cup UNION {SnapshotDbKeys(g) : g \in frags}

\* C12: the fragments of one add call, passed as separate arguments, as one
\* array or as a mix, are one snapshot: when they fit together, add returns
\* the Connector, and for every repository r that one fragment maps to a
\* database d that another fragment gives, whichever comes first, d is
\* registered with a pool opened by this call and r is registered with that
\* database and pool.
C12_FragmentsFormOneSnapshot ==
    [][(call'.op = "add" /\ FragmentsFit(FragmentsOf(call'.args), DOMAIN databases)) =>
          /\ result' = Return("add", SelfV)
          /\ \A f, g \in FragmentsOf(call'.args) :
                \A e \in SnapshotRepos(g) :
                    (f # g /\ e.value.s \in SnapshotDbKeys(f)) =>
                        /\ e.value.s \in DOMAIN databases'
                        /\ databases'[e.value.s].pool \in (Len(pools) + 1)..Len(pools')
                        /\ e.key \in DOMAIN repositories'
                        /\ repositories'[e.key] =
                               [name |-> e.key,
                                pool |-> databases'[e.value.s].pool,
                                databaseName |-> e.value.s]]_vars

\* C12 witness: add(repositories fragment, [databases fragment]) with the
\* repository first and the database inside an array registered both.
C12_Witness ==
    /\ call = Call("add", <<RepoOnly("r1", "d2"), ArrOf(<<DbOnly("d2")>>)>>, "")
    /\ result = Return("add", SelfV)
    /\ "d2" \in DOMAIN databases
    /\ repositories["r1"].databaseName = "d2"
    /\ repositories["r1"].pool = databases["d2"].pool

----------------------------------------------------------------------------
(* Properties of connect and getPool *)

\* C13: connect and getPool, in every state: a repository argument that is
\* no string or is the empty string throws a TypeError; a non-empty string
\* that is no key of repositories throws a MissingRepositoryError whose data
\* is that name.  Either way nothing is returned, no pool.connect is called
\* and nothing is emitted.
C13_RepositoryFaults ==
    [][call'.op \in {"connect", "getPool"} =>
          LET repository == call'.args[1]
              wellFormed == repository.t = "string" /\ repository.s # ""
          IN  /\ ~wellFormed =>
                    /\ result'.outcome = "throw"
                    /\ result'.value.type = "TypeError"
                    /\ conns' = conns
                    /\ emitted' = << >>
              /\ (wellFormed /\ repository.s \notin DOMAIN repositories) =>
                    /\ result'.outcome = "throw"
                    /\ result'.value.type = "MissingRepositoryError"
                    /\ result'.value.data = DataKey(repository.s)
                    /\ conns' = conns
                    /\ emitted' = << >>]_vars

\* C13 witness: with r1 registered and a listener of 'error' subscribed,
\* connect("blorg", callback) on a pool that would throw ended with the
\* MissingRepositoryError that carries "blorg".
C13_Witness ==
    /\ call = Call("connect", <<Str("blorg"), FnNamed("callback")>>, "throws")
    /\ "r1" \in DOMAIN repositories
    /\ listeners["error"] = 1
    /\ result = Throw("connect", MissingRepositoryError("blorg"))
    /\ emitted = << >>

\* C14: when the pool calls back with an error, the callback given to that
\* connect, if any, is invoked once with the error as its only argument,
\* the promise is rejected with that error, and the call is over.
C14_AcquisitionError ==
    [][\A i \in 1..Len(conns) :
          (call'.op = "connect.callback" /\ elv(call'.args[1])
             /\ conns' = RemoveAt(conns, i)) =>
              /\ result'.outcome = "reject"
              /\ result'.value = call'.args[1]
              /\ result'.cb = IF elv(conns[i].cbfn)
                              THEN <<[fn |-> conns[i].cbfn, args |-> <<call'.args[1]>>]>>
                              ELSE << >>]_vars

\* C14 witness: a connect with a callback ended in the pool's error: the
\* callback got the error and the promise was rejected with it.
C14_Witness ==
    /\ call = Call("connect.callback", <<ErrorV("pool")>>, "")
    /\ result.outcome = "reject"
    /\ result.value = ErrorV("pool")
    /\ result.cb = <<[fn |-> FnNamed("callback"), args |-> <<ErrorV("pool")>>]>>

\* C15: when the pool calls back with a client and a release function, the
\* callback given to that connect, if any, is invoked once with (null,
\* client, release), and the promise is resolved with the client, which is
\* neither the release function nor holds it.
C15_AcquisitionSuccess ==
    [][\A i \in 1..Len(conns) :
          (call'.op = "connect.callback" /\ ~elv(call'.args[1])
             /\ conns' = RemoveAt(conns, i)) =>
              /\ result'.outcome = "resolve"
              /\ result'.value = call'.args[2]
              /\ result'.value = ClientV(conns[i].pool)
              /\ result'.cb = IF elv(conns[i].cbfn)
                              THEN <<[fn |-> conns[i].cbfn,
                                      args |-> <<Null, call'.args[2], call'.args[3]>>]>>
                              ELSE << >>]_vars

\* C15 witness: a connect with a callback on r1 got a client of r1's pool:
\* the callback got (null, client, release), the promise the client.
C15_Witness ==
    /\ call.op = "connect.callback"
    /\ result.outcome = "resolve"
    /\ result.value = ClientV(repositories["r1"].pool)
    /\ result.cb = <<[fn |-> FnNamed("callback"),
                      args |-> <<Null, ClientV(repositories["r1"].pool), Release>>]>>

\* C16: every connect on a registered repository (with a callback that is
\* a function or with none) whose pool.connect throws, with or without a
\* listener of 'error': the fault is emitted once as 'error', connect
\* returns a promise that is neither rejected nor resolved, and the
\* callback is not invoked.
C16_DriverFaultOnlyEmitted ==
    [][(/\ call'.op = "connect"
        /\ call'.env = "throws"
        /\ call'.args[1].t = "string"
        /\ call'.args[1].s \in DOMAIN repositories
        /\ call'.args[2].t \in {"undefined", "function"}) =>
          /\ Len(emitted') = 1
          /\ emitted'[1].name = "error"
          /\ emitted'[1].arg = ErrorV("driver")
          /\ result' = Return("connect", PromiseV("pending", Undefined))]_vars

----------------------------------------------------------------------------
(* Properties of load *)

\* the events of a step that have the given name
Emitted(events, name) == {k \in 1..Len(events) : events[k].name = name}

\* C17: load whose providers is no array or is an empty array, or whose
\* callback is given and is no function, throws a TypeError: no load is
\* started (no provider is invoked), nothing is emitted, no promise is
\* returned and the Registry is unchanged.
C17_LoadUsageFaults ==
    [][call'.op = "load" =>
          LET args == call'.args
              callback == IF Len(args) >= 3 THEN args[3] ELSE Undefined
          IN  ( \/ Len(args) = 0
                \/ args[1].t # "array"
                \/ Len(args[1].items) = 0
                \/ callback.t \notin {"undefined", "null", "function"} ) =>
                  /\ result'.outcome = "throw"
                  /\ result'.value.type = "TypeError"
                  /\ loads' = loads
                  /\ emitted' = << >>
                  /\ Registry' = Registry]_vars

\* C17 witness: with d1 and r1 registered and a listener of 'done',
\* load([provider], null, 42) threw the TypeError of the callback.
C17_Witness ==
    /\ call = Call("load", <<OneProvider(FullFrag), Null, Num>>, "")
    /\ result = Throw("load", TypeError(Msg("argCallback")))
    /\ "r1" \in DOMAIN repositories
    /\ listeners["done"] = 1
    /\ loads = << >>

\* C18: a load that starts takes its callback and base value by the shape
\* of its arguments: with exactly two arguments of which the second is a
\* function, that function is the callback and there is no base value;
\* otherwise the second argument is the base value and the third the
\* callback.  The callback a load invokes when it ends is the one so taken,
\* so with three arguments a function in second position is never invoked.
C18_ArgumentShape ==
    [][/\ (call'.op = "load" /\ loads' # loads) =>
             LET args == call'.args
                 started == loads'[Len(loads')]
             IN  IF Len(args) = 2 /\ args[2].t = "function"
                 THEN started.cbfn = args[2] /\ started.base = Undefined
                 ELSE /\ started.base = (IF Len(args) >= 2 THEN args[2] ELSE Undefined)
                      /\ started.cbfn = (IF Len(args) >= 3 THEN args[3] ELSE Undefined)
       /\ (call'.op = "load" /\ Len(call'.args) = 3) =>
             \A k \in 1..Len(loads') : loads'[k].cbfn # FnNamed("second")
       /\ \A i \in 1..Len(loads) :
             (call'.op = "load.callback" /\ loads' = RemoveAt(loads, i)) =>
                 \A k \in 1..Len(result'.cb) :
                     /\ result'.cb[k].fn = loads[i].cbfn
                     /\ result'.cb[k].fn # FnNamed("second")]_vars

\* C18 witness: load([provider], base, callback) ended, the base value was
\* merged and the third argument was invoked.
C18_Witness ==
    /\ call.op = "load.callback"
    /\ result.outcome = "resolve"
    /\ result.cb = <<[fn |-> FnNamed("callback"), args |-> <<Null, SelfV>>]>>
    /\ lastFill.conf = Merge(RepoFrag, DbFrag)
    /\ "r2" \in DOMAIN repositories

\* C19: when a provider yields an error, the callback given to that load,
\* if any, is invoked once with the error, the promise is rejected with it,
\* no 'done' is emitted, and the Registry is unchanged; no earlier step of a
\* load (the call, a fragment before the last) changes the Registry either.
C19_AggregationFailure ==
    [][/\ \A i \in 1..Len(loads) :
             (call'.op = "load.callback" /\ Len(call'.args) = 1
                /\ loads' = RemoveAt(loads, i)) =>
                 /\ result'.outcome = "reject"
                 /\ result'.value = call'.args[1]
                 /\ result'.cb = IF elv(loads[i].cbfn)
                                 THEN <<[fn |-> loads[i].cbfn,
                                         args |-> <<call'.args[1]>>]>>
                                 ELSE << >>
                 /\ Emitted(emitted', "done") = {}
                 /\ Registry' = Registry
       /\ (call'.op = "load" \/ result'.op = "load.config") =>
             Registry' = Registry]_vars

\* C19 witness: after the fragment of the first provider was announced the
\* second provider failed: the callback got the error, the promise was
\* rejected with it, and no pool was opened.
C19_Witness ==
    /\ call = Call("load.callback", <<ErrorV("provider")>>, "")
    /\ result.outcome = "reject"
    /\ result.value = ErrorV("provider")
    /\ result.cb = <<[fn |-> FnNamed("callback"), args |-> <<ErrorV("provider")>>]>>
    /\ pools = << >>
    /\ listeners["done"] = 1

\* C20: when the last fragment has arrived and the merged object does not
\* pass validation, nothing is thrown: the callback given to that load, if
\* any, is invoked once with a ConfigurationError, the promise is rejected
\* with that same error, and no 'done' is emitted.
C20_ValidationFailure ==
    [][\A i \in 1..Len(loads) :
          (/\ call'.op = "load.callback"
           /\ Len(call'.args) = 2
           /\ loads' = RemoveAt(loads, i)
           /\ ~PassesValidation(lastFill'.conf, DOMAIN databases)) =>
              /\ result'.outcome = "reject"
              /\ IsConfigurationError(result'.value)
              /\ result'.cb = IF elv(loads[i].cbfn)
                              THEN <<[fn |-> loads[i].cbfn, args |-> <<result'.value>>]>>
                              ELSE << >>
              /\ Emitted(emitted', "done") = {}]_vars

\* C20 witness: load([provider of d2], base mapping r2 to d1, callback) on
\* an empty Registry: d2 was opened, r2 names no database, and the callback
\* and the promise got the ConfigurationError of that mapping.
C20_Witness ==
    /\ call.op = "load.callback"
    /\ result.outcome = "reject"
    /\ result.value = ConfigurationError(Msg("repoConfMapping"),
                                         DataKeyValue("r2", Str("d1")))
    /\ result.cb = <<[fn |-> FnNamed("callback"), args |-> <<result.value>>]>>
    /\ "d2" \in DOMAIN databases
    /\ "d1" \notin DOMAIN databases

\* the positions of an effect in the effects of a step
Positions(order, effect) == {k \in 1..Len(order) : order[k] = effect}

\* both effects happen once, the first before the second
OnceBefore(order, first, second) ==
    /\ Cardinality(Positions(order, first)) = 1
    /\ Cardinality(Positions(order, second)) = 1
    /\ \A j \in Positions(order, first), k \in Positions(order, second) : j < k

\* C21: when the last fragment has arrived and the merged object passes
\* validation, the step applies it, so that the Registry has every
\* database and repository of it, then emits one 'done' that carries the
\* merged object, then invokes the callback, if any, once with (null,
\* connector), then resolves the promise with the Connector.
C21_LoadSuccess ==
    [][\A i \in 1..Len(loads) :
          (/\ call'.op = "load.callback"
           /\ Len(call'.args) = 2
           /\ loads' = RemoveAt(loads, i)
           /\ loads[i].next = Len(loads[i].providers)
           /\ PassesValidation(Merge(loads[i].value, call'.args[2]), DOMAIN databases)) =>
              LET merged == Merge(loads[i].value, call'.args[2])
              IN  /\ SnapshotDbKeys(merged) \subseteq DOMAIN databases'
                  /\ {e.key : e \in SnapshotRepos(merged)} \subseteq DOMAIN repositories'
                  /\ Cardinality(Emitted(emitted', "done")) = 1
                  /\ \A k \in Emitted(emitted', "done") : emitted'[k].arg = merged
                  /\ result'.outcome = "resolve"
                  /\ result'.value = SelfV
                  /\ result'.cb = IF elv(loads[i].cbfn)
                                  THEN <<[fn |-> loads[i].cbfn, args |-> <<Null, SelfV>>]>>
                                  ELSE << >>
                  /\ OnceBefore(effects', "fill", "done")
                  /\ OnceBefore(effects', "done", "resolve")
                  /\ Positions(effects', "reject") = {}
                  /\ IF elv(loads[i].cbfn)
                     THEN /\ OnceBefore(effects', "done", "callback")
                          /\ OnceBefore(effects', "callback", "resolve")
                     ELSE Positions(effects', "callback") = {}]_vars

\* C21 witness: a load with a callback and a listener of 'done' ended well:
\* 'done' carried the merged object to the listener, the callback got
\* (null, connector) and the promise the Connector.
C21_Witness ==
    /\ call.op = "load.callback"
    /\ listeners["done"] = 1
    /\ emitted = <<[name |-> "config", arg |-> RepoFrag, heard |-> 0],
                   [name |-> "done", arg |-> Merge(FullFrag, RepoFrag), heard |-> 1]>>
    /\ effects = <<"config", "fill", "done", "callback", "resolve">>
    /\ result = Settle("load.callback", "resolve", SelfV, FnNamed("callback"),
                       <<Null, SelfV>>)
    /\ "d1" \in DOMAIN databases
    /\ {"r1", "r2"} \subseteq DOMAIN repositories

\* every provider of the list yields a fragment
AllYieldFragments(providers) ==
    \A k \in 1..Len(providers) : providers[k].yields.t = "object"

\* this step is a provider of the i-th load calling back with a fragment
Delivers(i) ==
    /\ call'.op = "load.callback"
    /\ Len(call'.args) = 2
    /\ \/ loads' = RemoveAt(loads, i)
       \/ /\ Len(loads') = Len(loads)
          /\ loads'[i].next = loads[i].next + 1

\* every fragment of a load is announced by one 'config' that carries it,
\* and before the last fragment no 'done' is emitted
OneConfigPerFragment(i) ==
    /\ call'.args[2] = loads[i].providers[loads[i].next].yields
    /\ Cardinality(Emitted(emitted', "config")) = 1
    /\ \A k \in Emitted(emitted', "config") : emitted'[k].arg = call'.args[2]
    /\ loads[i].next < Len(loads[i].providers) =>
          /\ Emitted(emitted', "done") = {}
          /\ Len(loads') = Len(loads)

\* the n-th 'config' is followed by one 'done', and two repositories that
\* the merged object maps to one database have one pool
DoneAndOnePool(i) ==
    LET merged == Merge(loads[i].value, call'.args[2])
    IN  /\ OnceBefore(effects', "config", "done")
        /\ Cardinality(Emitted(emitted', "done")) = 1
        /\ \A k \in Emitted(emitted', "done") : emitted'[k].arg = merged
        /\ \A e, f \in SnapshotRepos(merged) :
              e.value = f.value =>
                  /\ e.key \in DOMAIN repositories'
                  /\ f.key \in DOMAIN repositories'
                  /\ repositories'[e.key].pool = repositories'[f.key].pool

\* C22 as stated: for a load over n providers that each yield a fragment,
\* each fragment is announced by one 'config' carrying it, the n-th is
\* followed by one 'done', and repositories that the merged object maps to
\* the same database then have the same pool.
C22_ConfigsThenDone ==
    [][\A i \in 1..Len(loads) :
          (Delivers(i) /\ AllYieldFragments(loads[i].providers)) =>
              /\ OneConfigPerFragment(i)
              /\ loads[i].next = Len(loads[i].providers) => DoneAndOnePool(i)]_vars

\* C22 amended: as above, where the n-th fragment is followed by one 'done'
\* when the merged object passes validation, and by none when it does not.
C22_ConfigsThenDoneIfValid ==
    [][\A i \in 1..Len(loads) :
          (Delivers(i) /\ AllYieldFragments(loads[i].providers)) =>
              /\ OneConfigPerFragment(i)
              /\ loads[i].next = Len(loads[i].providers) =>
                    IF PassesValidation(Merge(loads[i].value, call'.args[2]),
                                        DOMAIN databases)
                    THEN DoneAndOnePool(i)
                    ELSE Emitted(emitted', "done") = {}]_vars

\* C22 witness: load([P1, P2]) where P1 yields d1 and r1 on d1 and P2 yields
\* r2 on d1, with a listener of 'config': the second 'config' carried P2's
\* fragment and was followed by 'done', and r1 and r2 have d1's pool.
C22_Witness ==
    /\ call = Call("load.callback", <<Null, RepoFrag>>, "")
    /\ listeners["config"] = 1
    /\ emitted = <<[name |-> "config", arg |-> RepoFrag, heard |-> 1],
                   [name |-> "done", arg |-> Merge(FullFrag, RepoFrag), heard |-> 0]>>
    /\ repositories["r1"].pool = databases["d1"].pool
    /\ repositories["r2"].pool = databases["d1"].pool

\* C23: whenever a load fails, because a provider yields an error or
\* because the merged configuration does not pass validation, 'error' is
\* emitted with that error to the listeners subscribed to 'error'.
C23_LoadFailureEmitsError ==
    [][\A i \in 1..Len(loads) :
          (/\ call'.op = "load.callback"
           /\ loads' = RemoveAt(loads, i)
           /\ listeners["error"] > 0
           /\ \/ Len(call'.args) = 1
              \/ ~PassesValidation(Merge(loads[i].value, call'.args[2]),
                                   DOMAIN databases)) =>
              \E k \in Emitted(emitted', "error") :
                  /\ emitted'[k].arg = result'.value
                  /\ emitted'[k].heard > 0]_vars

----------------------------------------------------------------------------
(* Properties of on and of shared *)

\* C24: on(eventName, listener) adds the listener to the event and returns
\* the Connector when eventName is 'config', 'done' or 'error' and listener
\* is a function; in every other case it throws and adds no listener.
C24_OnRegistersOrThrows ==
    [][call'.op = "on" =>
          LET eventName == call'.args[1]
              listener == call'.args[2]
          IN  IF /\ eventName.t = "string"
                 /\ eventName.s \in {"config", "done", "error"}
                 /\ listener.t = "function"
              THEN /\ result' = Return("on", SelfV)
                   /\ listeners' = [listeners EXCEPT ![eventName.s] = @ + 1]
              ELSE /\ result'.outcome = "throw"
                   /\ result'.value.t = "error"
                   /\ listeners' = listeners]_vars

\* C24 witness: with a listener of 'done' registered, on('close', listener)
\* threw and the listeners are as they were.
C24_Witness ==
    /\ call = Call("on", <<Str("close"), FnNamed("listener")>>, "")
    /\ result.outcome = "throw"
    /\ result.value = ErrorV(msg.argUnknownEventName)
    /\ listeners = [config |-> 0, done |-> 1, error |-> 0]

\* C25: Connector.shared is null at first and always null or a Connector;
\* setting it to null or to a Connector stores that value, which the reads
\* after it return; setting it to anything else throws a TypeError and leaves
\* the value it held; nothing else changes it.
C25_SharedNullOrConnector ==
    /\ shared = Null
    /\ [](shared = Null \/ shared.t = "connector")
    /\ [][(call'.op = "shared.set" =>
               LET val == call'.args[1]
               IN  IF val = Null \/ val.t = "connector"
                   THEN shared' = val /\ result'.outcome = "return"
                   ELSE /\ result'.outcome = "throw"
                        /\ result'.value.type = "TypeError"
                        /\ shared' = shared)
           /\ (call'.op = "shared.get" =>
                  result' = Return("shared.get", shared) /\ shared' = shared)
           /\ (call'.op # "shared.set" => shared' = shared)]_vars

\* C25 witness: Connector.shared held a Connector when it was set to a
\* number: the setter threw and the Connector is still there.
C25_Witness ==
    /\ call = Call("shared.set", <<Num>>, "")
    /\ result.outcome = "throw"
    /\ result.value = TypeError(Msg("sharedInvalid"))
    /\ shared = OtherConnector

----------------------------------------------------------------------------
(* Properties of validation and of its application *)

\* the messages of the faults of one entry of `databases` or `repositories`
EntryFaultMessages ==
    {msg.dbConfPojo, msg.dbConfHostStr, msg.repoConfStr, msg.repoConfMapping}

\* C26: a configuration fault about an entry of `databases` or of
\* `repositories` carries as data both the key of that entry and the value
\* found under it in the snapshot.
C26_FaultCarriesKeyAndValue ==
    (/\ IsConfigurationError(lastFill.ret)
     /\ lastFill.ret.message \in EntryFaultMessages) =>
        /\ lastFill.ret.data.shape = "keyvalue"
        /\ \E name \in {"databases", "repositories"} :
              \E i \in 1..Len(EntriesOf(lastFill.conf, name)) :
                  /\ EntriesOf(lastFill.conf, name)[i].key = lastFill.ret.data.key
                  /\ EntriesOf(lastFill.conf, name)[i].value = lastFill.ret.data.value

\* C27: the first entry of databases or repositories appears only in a step
\* of add or load that completed successfully, so that a Registry with an
\* entry has a successful add or load behind it.
C27_ConfiguredOnlyBySuccess ==
    [][(/\ databases = << >>
        /\ repositories = << >>
        /\ (databases' # << >> \/ repositories' # << >>)) =>
           /\ result'.op \in {"add", "load.callback"}
           /\ result'.outcome \in {"return", "resolve"}
           /\ lastFill'.ret = Null]_vars

\* the value under `name` is absent or no plain object
NoMapping(conf, name) == Get(conf, name).t # "object"

\* an entry of `name` fails the test
SomeEntryFails(conf, name, Passes(_)) ==
    \E i \in 1..Len(EntriesOf(conf, name)) : ~Passes(EntriesOf(conf, name)[i].value)

\* The rules a snapshot violates, by their numbers: (1) `databases` present
\* and a plain object, (2) every entry of it a plain object with a non-empty
\* string host, (3) `repositories` present and a plain object, (4) every
\* entry of it a non-empty string naming a database of the snapshot or of
\* the Registry (registered).
ViolatedRules(conf, registered) ==
    LET OkDatabase(v) ==
            v.t = "object" /\ Get(v, "host").t = "string" /\ Get(v, "host").s # ""
        OkRepository(v) ==
            v.t = "string" /\ v.s # "" /\ v.s \in SnapshotDbKeys(conf) \cup registered
    IN  {r \in 1..4 :
            \/ r = 1 /\ NoMapping(conf, "databases")
            \/ r = 2 /\ SomeEntryFails(conf, "databases", OkDatabase)
            \/ r = 3 /\ NoMapping(conf, "repositories")
            \/ r = 4 /\ SomeEntryFails(conf, "repositories", OkRepository)}

\* the rule a fault reports, 0 for no fault
RuleOf(err) ==
    IF ~IsConfigurationError(err) THEN 0
    ELSE IF err.message \in {msg.noDatabases, msg.databasesPojo} THEN 1
    ELSE IF err.message \in {msg.dbConfPojo, msg.dbConfHostStr} THEN 2
    ELSE IF err.message \in {"Invalid configuration", msg.reposPojo} THEN 3
    ELSE 4

\* the first rule of the order that is violated, 0 if none is
EarliestViolated(order, violated) ==
    IF \A i \in 1..Len(order) : order[i] \notin violated THEN 0
    ELSE order[CHOOSE i \in 1..Len(order) :
                   /\ order[i] \in violated
                   /\ \A j \in 1..(i - 1) : order[j] \notin violated]

\* neither `databases` nor `repositories` is an object without entries
NoEmptyMapping(conf) ==
    /\ Get(conf, "databases") # Obj(<< >>)
    /\ Get(conf, "repositories") # Obj(<< >>)

\* a step of add that validated a snapshot reports the earliest violated
\* rule of the order
ReportsInOrder(order) ==
    (/\ call'.op = "add"
     /\ Len(call'.args) > 0
     /\ NoEmptyMapping(lastFill'.conf)) =>
        RuleOf(lastFill'.ret) =
            EarliestViolated(order, ViolatedRules(lastFill'.conf, DOMAIN databases))

\* C28 as stated: the fault reported is that of the earliest violated rule
\* in the order 1, 2, 3, 4, so that an invalid database entry is reported in
\* preference to a missing or malformed `repositories` key.
C28_OrderDatabasesEntriesFirst == [][ReportsInOrder(<<1, 2, 3, 4>>)]_vars

\* C28 amended: the fault reported is that of the earliest violated rule in
\* the order 1, 3, 2, 4: a missing or malformed `repositories` key is
\* reported in preference to an invalid database entry.
C28_OrderKeysFirst == [][ReportsInOrder(<<1, 3, 2, 4>>)]_vars

\* C28 witness: a snapshot whose only database entry has an empty host and
\* which has no `repositories` was reported for its `repositories`.
C28_Witness ==
    /\ call.op = "add"
    /\ ViolatedRules(lastFill.conf, {}) = {2, 3}
    /\ RuleOf(lastFill.ret) = 3
    /\ databases = << >>

\* the index of the first entry that fails the test, one past the last entry
\* if none does
FirstFailing(entries, Passes(_)) ==
    IF \A i \in 1..Len(entries) : Passes(entries[i].value) THEN Len(entries) + 1
    ELSE CHOOSE i \in 1..Len(entries) :
             /\ ~Passes(entries[i].value)
             /\ \A h \in 1..(i - 1) : Passes(entries[h].value)

\* C29: an add whose snapshot has a non-empty `databases` object and a
\* `repositories` object stores the database entries before the first
\* invalid one, k, each with a pool opened for it in key order; if there is
\* such a k the call fails, the entries from k on are as they were and so
\* are all repositories; if there is none, the repositories before the
\* first invalid one, j, are stored, and if there is such a j the call fails
\* and the repositories from j on are as they were.
C29_IncrementalWithoutRollback ==
    [][(/\ call'.op = "add"
        /\ Len(call'.args) > 0
        /\ Get(lastFill'.conf, "databases").t = "object"
        /\ Get(lastFill'.conf, "repositories").t = "object"
        /\ Len(EntriesOf(lastFill'.conf, "databases")) > 0) =>
           LET dbs == EntriesOf(lastFill'.conf, "databases")
               repos == EntriesOf(lastFill'.conf, "repositories")
               OkDatabase(v) ==
                   v.t = "object" /\ Get(v, "host").t = "string" /\ Get(v, "host").s # ""
               OkRepository(v) ==
                   v.t = "string" /\ v.s # "" /\ v.s \in DOMAIN databases'
               k == FirstFailing(dbs, OkDatabase)
               j == FirstFailing(repos, OkRepository)
           IN  /\ pools' = pools \o [i \in 1..(k - 1) |->
                                        [key |-> dbs[i].key, conf |-> dbs[i].value]]
               /\ \A i \in 1..(k - 1) :
                      /\ dbs[i].key \in DOMAIN databases'
                      /\ databases'[dbs[i].key] =
                             [name |-> dbs[i].key, pool |-> Len(pools) + i]
               /\ \A i \in k..Len(dbs) : SameEntry(databases, databases', dbs[i].key)
               /\ k <= Len(dbs) =>
                      /\ RuleOf(lastFill'.ret) = 2
                      /\ result'.outcome = "throw"
                      /\ repositories' = repositories
               /\ k > Len(dbs) =>
                      /\ \A i \in 1..(j - 1) :
                             /\ repos[i].key \in DOMAIN repositories'
                             /\ repositories'[repos[i].key] =
                                    [name |-> repos[i].key,
                                     pool |-> databases'[repos[i].value.s].pool,
                                     databaseName |-> repos[i].value.s]
                      /\ \A i \in j..Len(repos) :
                             SameEntry(repositories, repositories', repos[i].key)
                      /\ j <= Len(repos) =>
                             /\ RuleOf(lastFill'.ret) = 4
                             /\ result'.outcome = "throw"]_vars

\* C29 witness: the second database entry of a snapshot was invalid; the
\* add threw, the first entry is stored with its pool, the second is not
\* and neither is the repository of the snapshot.
C29_Witness ==
    /\ call.op = "add"
    /\ result.outcome = "throw"
    /\ Get(lastFill.conf, "databases") = ObjOf(<<"d1", "d2">>, <<OkDb, DbConf(Str(""))>>)
    /\ Get(lastFill.conf, "repositories") = ObjOf(<<"r1">>, <<Str("d1")>>)
    /\ DOMAIN databases = {"d1"}
    /\ pools = <<[key |-> "d1", conf |-> OkDb]>>
    /\ repositories = << >>

\* C30: a step opens one pool for each database entry it stores, in the
\* step that stores it and with the config of that entry in the snapshot,
\* which is valid; the pools opened before stay as they are; connect and
\* its callback, getPool, on, add without arguments, load itself and the
\* callback of a load whose aggregation failed open no pool.
C30_OnePoolPerStoredEntry ==
    [][LET dbs == EntriesOf(lastFill'.conf, "databases")
           opened == (Len(pools) + 1)..Len(pools')
           stored == {key \in DOMAIN databases' : ~SameEntry(databases, databases', key)}
       IN  /\ Len(pools') >= Len(pools)
           /\ SubSeq(pools', 1, Len(pools)) = pools
           /\ \A p \in opened :
                  /\ \E i \in 1..Len(dbs) :
                         /\ dbs[i].key = pools'[p].key
                         /\ dbs[i].value = pools'[p].conf
                  /\ pools'[p].conf.t = "object"
                  /\ Get(pools'[p].conf, "host").t = "string"
                  /\ Get(pools'[p].conf, "host").s # ""
                  /\ pools'[p].key \in stored
                  /\ databases'[pools'[p].key].pool = p
           /\ \A key \in stored : databases'[key].pool \in opened
           /\ (\/ call'.op \in {"connect", "connect.callback", "getPool", "on", "load"}
               \/ call'.op = "add" /\ Len(call'.args) = 0
               \/ call'.op = "load.callback" /\ Len(call'.args) = 1) =>
                  pools' = pools /\ databases' = databases]_vars

\* C30 witness: an add stored d2 and opened the second pool for it, with the
\* config of d2, after the pool an earlier add had opened for d1.
C30_Witness ==
    /\ call.op = "add"
    /\ lastFill.base = 1
    /\ pools = <<[key |-> "d1", conf |-> OkDb], [key |-> "d2", conf |-> OkDb]>>
    /\ databases["d1"].pool = 1
    /\ databases["d2"].pool = 2

----------------------------------------------------------------------------
(* Properties of add and load side by side, and of calls in flight *)

\* C31: the step of a load that applies its merged object leaves the
\* Registry that add leaves when it applies the same object to the same
\* Registry, with the same number of pools opened, and ends with the same
\* fault or success: it rejects with the error add throws, and resolves
\* with the Connector add returns.
C31_LoadAppliesAsAdd ==
    [][(call'.op = "load.callback" /\ Does(effects', "fill")) =>
          LET applied == Fill(Self, lastFill'.conf)
              added == AddOutcome(applied.ret)
          IN  /\ databases' = applied.self.databases
              /\ repositories' = applied.self.repositories
              /\ pools' = applied.self.pools
              /\ lastFill'.ret = applied.ret
              /\ result'.value = added.value
              /\ added.outcome = "throw" <=> result'.outcome = "reject"
              /\ added.outcome = "return" <=> result'.outcome = "resolve"]_vars

\* C31 witness: a load applied its merged object to a Registry that an add
\* had filled: it opened the second pool and resolved.
C31_Witness ==
    /\ call.op = "load.callback"
    /\ Does(effects, "fill")
    /\ lastFill.base = 1
    /\ Len(pools) = 2
    /\ DOMAIN repositories # {}
    /\ result.outcome = "resolve"

\* C32: the Registry changes only in a step of add or in the step of a load
\* that applies its merged object, and that one step makes the whole
\* application; the call of load, the arrival of a fragment or of a
\* provider's error, connect, its callback and getPool leave the Registry
\* as it is.
C32_RegistryChangesInApplicationOnly ==
    [][LET applies == \/ call'.op = "add" /\ Len(call'.args) > 0
                      \/ call'.op = "load.callback" /\ Does(effects', "fill")
       IN  /\ Registry' # Registry => applies
           /\ applies => Registry' = <<Fill(Self, lastFill'.conf).self.databases,
                                       Fill(Self, lastFill'.conf).self.repositories,
                                       Fill(Self, lastFill'.conf).self.pools>>
           /\ ~applies => Registry' = Registry]_vars

\* C32 witness: a load is suspended between its two providers: its first
\* fragment, with database d2, has arrived, and the Registry is the one an
\* add had left, with d1 only.
C32_Witness ==
    /\ call.op = "load.callback"
    /\ ~Does(effects, "fill")
    /\ Len(loads) = 1
    /\ loads[1].next = 2
    /\ Get(loads[1].value, "databases") = ObjOf(<<"d2">>, <<OkDb>>)
    /\ DOMAIN databases = {"d1"}
    /\ Len(pools) = 1

\* C33: a connect that passes its checks and whose driver does not throw
\* adds one acquisition, on the pool of its repository and with its own
\* callback, to those in flight and leaves the others as they are; when an
\* acquisition completes, whichever it is, only its own callback is invoked
\* and only its own promise is settled, with the client of its own pool or
\* with its own error, and the other acquisitions stay in flight as they
\* were.
C33_ConnectsAreIndependent ==
    [][/\ (call'.op = "connect" /\ result'.outcome = "return" /\ call'.env = "calls back") =>
              conns' = Append(conns, [pool |-> repositories[call'.args[1].s].pool,
                                      cbfn |-> call'.args[2]])
       /\ (call'.op = "connect" /\ ~(result'.outcome = "return" /\ call'.env = "calls back")) =>
              conns' = conns
       /\ call'.op = "connect.callback" =>
              \E i \in 1..Len(conns) :
                  /\ conns' = RemoveAt(conns, i)
                  /\ Len(result'.cb) = IF elv(conns[i].cbfn) THEN 1 ELSE 0
                  /\ \A k \in 1..Len(result'.cb) : result'.cb[k].fn = conns[i].cbfn
                  /\ IF elv(call'.args[1])
                     THEN /\ result'.outcome = "reject"
                          /\ result'.value = call'.args[1]
                          /\ \A k \in 1..Len(result'.cb) :
                                 result'.cb[k].args = <<call'.args[1]>>
                     ELSE /\ result'.outcome = "resolve"
                          /\ result'.value = ClientV(conns[i].pool)
                          /\ \A k \in 1..Len(result'.cb) :
                                 result'.cb[k].args[2] = ClientV(conns[i].pool)]_vars

\* C33 witness: of two connects of r1 in flight, with callbacks a and b, the
\* second failed: b was called with the error, and the first is in flight
\* still.
C33_Witness ==
    /\ call = Call("connect.callback", <<ErrorV("pool")>>, "")
    /\ result.outcome = "reject"
    /\ result.cb = <<[fn |-> FnNamed("b"), args |-> <<ErrorV("pool")>>]>>
    /\ conns = <<[pool |-> 1, cbfn |-> FnNamed("a")]>>

\* the number of times the step did the effect
Times(order, effect) == Cardinality({k \in 1..Len(order) : order[k] = effect})

\* C34: a connect starts at most one acquisition, and none after its driver
\* threw; the completion of an acquisition, with a client or with an error,
\* ends it and starts none.  A load starts one aggregation, at its first
\* provider; a callback of a provider moves the aggregation to the next
\* provider or ends it, and ends it if it applies the merged object, which
\* it does once at most; no other step starts, moves or ends anything.
C34_NoInternalRetry ==
    [][/\ call'.op = "connect" =>
              /\ loads' = loads
              /\ \/ conns' = conns
                 \/ /\ call'.env # "throws"
                    /\ Len(conns') = Len(conns) + 1
                    /\ SubSeq(conns', 1, Len(conns)) = conns
       /\ call'.op = "connect.callback" =>
              /\ loads' = loads
              /\ \E i \in 1..Len(conns) : conns' = RemoveAt(conns, i)
       /\ call'.op = "load" =>
              /\ conns' = conns
              /\ \/ loads' = loads
                 \/ /\ Len(loads') = Len(loads) + 1
                    /\ SubSeq(loads', 1, Len(loads)) = loads
                    /\ loads'[Len(loads')].next = 1
       /\ call'.op = "load.callback" =>
              /\ conns' = conns
              /\ Times(effects', "fill") <= 1
              /\ \E i \in 1..Len(loads) :
                     \/ loads' = RemoveAt(loads, i)
                     \/ /\ loads' = [loads EXCEPT ![i].next = @ + 1,
                                                  ![i].value = loads'[i].value]
                        /\ Len(call'.args) = 2
                        /\ ~Does(effects', "fill")
       /\ call'.op \notin {"connect", "connect.callback", "load", "load.callback"} =>
              conns' = conns /\ loads' = loads]_vars

\* C34 witness: a load whose merged object was invalid has applied it once,
\* rejected with the fault and is over, while another load is in flight.
C34_Witness ==
    /\ call.op = "load.callback"
    /\ Times(effects, "fill") = 1
    /\ result.outcome = "reject"
    /\ IsConfigurationError(result.value)
    /\ Len(loads) = 1
    /\ Len(pools) = 1

\* C35: the acquisition a connect starts is made, in the step of the call,
\* on the pool its repository is mapped to in the Registry of that moment;
\* add, load and the callbacks of a load, whatever they store, leave the
\* acquisitions in flight on their pools; the client an acquisition yields
\* is of the pool it was started on.
C35_ConnectBoundToPoolAtCallTime ==
    [][/\ (call'.op = "connect" /\ conns' # conns) =>
              /\ Len(conns') = Len(conns) + 1
              /\ conns'[Len(conns')].pool = repositories[call'.args[1].s].pool
       /\ call'.op \in {"add", "load", "load.callback", "getPool"} => conns' = conns
       /\ (call'.op = "connect.callback" /\ ~elv(call'.args[1])) =>
              \E i \in 1..Len(conns) :
                  /\ conns' = RemoveAt(conns, i)
                  /\ call'.args[2] = ClientV(conns[i].pool)
                  /\ result'.value = ClientV(conns[i].pool)]_vars

\* C35 witness: a connect of r1 was started on pool 1; an add then opened
\* pool 2 and mapped r1 to it; the acquisition has yielded a client of
\* pool 1.
C35_Witness ==
    /\ call.op = "connect.callback"
    /\ result.outcome = "resolve"
    /\ result.value = ClientV(1)
    /\ repositories["r1"].pool = 2

\* C36: the step that completes a load, whichever of the loads in flight it
\* is, applies the object merged from that load's own value and fragments
\* to the Registry as that step finds it, invokes that load's callback only
\* and settles with that load's own outcome; the other loads stay in flight
\* as they were.
C36_LoadsApplyInCompletionOrder ==
    [][(call'.op = "load.callback" /\ Len(loads') < Len(loads)) =>
          \E i \in 1..Len(loads) :
              /\ loads' = RemoveAt(loads, i)
              /\ Len(result'.cb) = IF elv(loads[i].cbfn) THEN 1 ELSE 0
              /\ \A k \in 1..Len(result'.cb) : result'.cb[k].fn = loads[i].cbfn
              /\ IF Len(call'.args) = 1
                 THEN /\ Registry' = Registry
                      /\ result'.outcome = "reject"
                      /\ result'.value = call'.args[1]
                 ELSE LET conf == Merge(loads[i].value, call'.args[2])
                          applied == Fill(Self, conf)
                      IN  /\ lastFill'.conf = conf
                          /\ databases' = applied.self.databases
                          /\ repositories' = applied.self.repositories
                          /\ pools' = applied.self.pools
                          /\ IF elv(applied.ret)
                             THEN /\ result'.outcome = "reject"
                                  /\ result'.value = applied.ret
                             ELSE /\ result'.outcome = "resolve"
                                  /\ result'.value = SelfV]_vars

\* C36 witness: of two loads in flight the one with callback `second`
\* completed while the one with callback `first`, which brings d1, was in
\* flight still: its r2, mapped to d1, was refused; `second` got the fault
\* and `first` is in flight as before.
C36_Witness ==
    /\ call.op = "load.callback"
    /\ result.outcome = "reject"
    /\ result.cb = <<[fn |-> FnNamed("second"), args |-> <<result.value>>]>>
    /\ result.value.message = msg.repoConfMapping
    /\ Len(loads) = 1
    /\ loads[1].cbfn = FnNamed("first")
    /\ DOMAIN databases = {"d2"}

\* C37: when the pool calls back the function a connect gave it, with a
\* client or with an error, the promise of that connect is settled in that
\* step: resolved with the client, or rejected with the error, whether the
\* connect was given no callback, one that returns or one that throws.
C37_PromiseSettlesOnce ==
    [][call'.op = "connect.callback" =>
          \E i \in 1..Len(conns) :
              /\ conns' = RemoveAt(conns, i)
              /\ IF elv(call'.args[1])
                 THEN result'.outcome = "reject" /\ result'.value = call'.args[1]
                 ELSE result'.outcome = "resolve" /\ result'.value = call'.args[2]]_vars

\* C38: a callback of a provider that brings a fragment emits 'config' with
\* that fragment first of all, before the merged object is applied if this
\* step applies it, and whatever becomes of the load afterwards; a step in
\* which a load fails, by the error of a provider or by the fault of the
\* merged object, emits no 'done'.
C38_ConfigBeforeApplicationNoDoneOnFailure ==
    [][call'.op = "load.callback" =>
          /\ Len(call'.args) = 2 =>
                 /\ Len(effects') > 0 /\ effects'[1] = "config"
                 /\ Times(effects', "config") = 1
                 /\ Len(emitted') > 0
                 /\ emitted'[1].name = "config"
                 /\ emitted'[1].arg = call'.args[2]
                 /\ emitted'[1].heard = listeners["config"]
                 /\ Registry' # Registry => Does(effects', "fill")
          /\ Len(call'.args) = 1 => emitted' = << >> /\ Registry' = Registry
          /\ result'.outcome = "reject" =>
                 /\ Emitted(emitted', "done") = {}
                 /\ ~Does(effects', "done")]_vars

\* C38 witness: the merged object of a load was invalid: 'config' was
\* emitted to a listener with the fragment, then the object was applied,
\* then the load failed, and no 'done' was emitted.
C38_Witness ==
    /\ call.op = "load.callback"
    /\ effects = <<"config", "fill", "callback", "reject">>
    /\ Len(emitted) = 1
    /\ emitted[1] = [name |-> "config", arg |-> BadFrag, heard |-> 1]
    /\ IsConfigurationError(result.value)

\* C39: an add whose snapshot has no `databases`, one that is no plain
\* object or an empty one, or has no `repositories` or one that is no plain
\* object, throws a configuration fault, opens no pool and leaves
\* databases and repositories as they were.
C39_ShapeFailuresAreAtomic ==
    [][(/\ call'.op = "add"
        /\ Len(call'.args) > 0
        /\ \/ NoMapping(lastFill'.conf, "databases")
           \/ Get(lastFill'.conf, "databases") = Obj(<< >>)
           \/ NoMapping(lastFill'.conf, "repositories")) =>
           /\ IsConfigurationError(lastFill'.ret)
           /\ result' = Throw("add", lastFill'.ret)
           /\ Registry' = Registry]_vars

\* C39 witness: an add of a valid database d1 with an array for
\* `repositories` threw and the Registry is empty as before.
C39_Witness ==
    /\ call.op = "add"
    /\ Get(lastFill.conf, "databases") = ObjOf(<<"d1">>, <<OkDb>>)
    /\ Get(lastFill.conf, "repositories") = Arr
    /\ result.outcome = "throw"
    /\ result.value.message = msg.reposPojo
    /\ databases = << >>
    /\ repositories = << >>
    /\ pools = << >>

\* C40: connect and its callback, getPool, on, and the reads and
\* assignments of Connector.shared, however they end, leave the databases
\* and repositories of this Connector and of the other one as they were;
\* add and load of this Connector leave those of the other one as they
\* were, and add of the other one leaves those of this one.
C40_FrameOfRegistries ==
    [][/\ call'.op \in {"connect", "connect.callback", "getPool", "on",
                        "shared.set", "shared.get"} =>
              /\ databases' = databases
              /\ repositories' = repositories
              /\ pools' = pools
              /\ peer' = peer
       /\ call'.op \in {"add", "load", "load.callback"} => peer' = peer
       /\ call'.op = "peer.add" => Registry' = Registry]_vars

\* C40 witness: this Connector holds d1 and its r1 is mapped to d1; an add
\* on the other Connector stored d2 and mapped its r1 to d2.
C40_Witness ==
    /\ call.op = "peer.add"
    /\ result.outcome = "return"
    /\ DOMAIN peer.databases = {"d2"}
    /\ peer.repositories["r1"].databaseName = "d2"
    /\ DOMAIN databases = {"d1"}
    /\ repositories["r1"].databaseName = "d1"

====
